---- MODULE Spec2Model ----
(***************************************************************************)
(* A model of the-synth's real-time core: the ADSR envelope, the           *)
(* 16-voice pool, the instrument engines with their MIDI channel filter    *)
(* and the multi-engine mixer.                                             *)
(*                                                                         *)
(* Numbers.  The source computes in f32.  Here a level is an integer       *)
(* number of 1/One units (One stands for 1.0), a time is an integer        *)
(* number of milliseconds, so that (time * sample_rate) as u64 is          *)
(* floor(ms * SampleRateHz / 1000).  A float quotient is its floor in      *)
(* 1/One units.                                                            *)
(***************************************************************************)
EXTENDS Integers, Sequences, FiniteSets, TLC

\* ---------------------------------------------------------------- bounds
\* resolution of a level: One stands for 1.0
One == 10
\* the sample rate of the device, in Hz
SampleRateHz == 1000
\* the envelope specification stops rendering after this many samples
MaxSamples == 7
\* the times (ms) and levels the editor may write
MaxTimeMs == 2

\* slots of the pool in the small pool specification (the source has
\* MAX_VOICES = 16; every pool definition is written for any number of slots)
PoolSize == 2
\* the pool specifications stop rendering when an envelope has counted this
\* many samples, and stop allocating after this many note_on calls
MaxPoolSamples == 4
MaxNoteOns == 3
\* samples rendered while the full pool is filled
MaxFillSamples == 2
\* the mixer specification: events the MIDI thread sends, audio callbacks
MaxEvents == 2
MaxCallbacks == 2
\* the stream specification: events the MIDI thread sends, callbacks
MaxStreamEvents == 1
MaxStreamCallbacks == 2
\* the noise specification: next_sample calls on each generator
MaxNoiseCalls == 5
\* the configuration files: instances of each kind
MaxSynths == 2
MaxDrums == 1
\* the latching specification: edits, events and callbacks
MaxLatchEdits == 2
MaxLatchEvents == 1
MaxLatchCallbacks == 2
\* the reverb specification: samples processed
MaxReverbSamples == 16
\* the oscillator specification: method calls
MaxOscCalls == 4
\* the editor specification: increase and decrease operations
MaxEdits == 2
\* steps of pitch resolution per semitone
PitchSub == 2
\* next_sample calls made on a drum voice driven alone
MaxDrumSamples == 6

\* ------------------------------------------------------- program constants
\* voice_pool.rs: pub const MAX_VOICES: usize = 16
MAX_VOICES == 16
\* test_max_voices: pool.note_on(60 + i, 440.0)
FirstNote == 60
\* Oscillator::new: frequency 440.0
DefaultFrequency == 440
\* VCA::new: gain 0.8, in tenths
GainTenths == 8
DefaultAttackMs == 10
DefaultDecayMs == 100
DefaultReleaseMs == 300
\* minimum stage time of set_adsr, 0.001 s
MinTimeMs == 1
\* midi_channel_filter 255: omni
Omni == 255
\* CVVoice::new: const MAX_NOTES
MAX_NOTES == 16
\* CVVoice::next_gate_sample: 0.8, in tenths
GateTenths == 8
\* KickDrum::new_with_parameters: base_frequency, start_frequency
KickBaseFrequency == 50
KickStartFrequency == 180
\* the click envelope's decay, 0.005 s
ClickDecayMs == 5
\* the snap envelope's decay, 0.003 s
SnapDecayMs == 3
\* the output channels of the audio device
NumChannels == 4
\* the frames temp_buffer is created for (512 in the program)
TempFrames == 1
\* the frames after which the voice states are sent to the UI (4410)
VoiceReportFrames == 2
\* usize::MAX of the modelled machine
UsizeMax == 15

VARIABLES
    env,          \* one Envelope (audio/envelope.rs)
    op,           \* the Envelope method called last
    since_on,     \* next_sample calls since the last note_on; -1 when a note_off
                  \* or a parameter change came after it (or there was none)
    since_off     \* next_sample calls since the last note_off; -1 when a note_on
                  \* or a parameter change came after it (or there was none)

VARIABLES
    pool,         \* one VoicePool (audio/voice_pool.rs): voices and global_age
    pool_op,      \* the VoicePool method called last, its note and, for
                  \* note_on, what the pool offered: "idle" (an Idle slot),
                  \* "quiet" (no Idle slot, an Active one with an idle
                  \* envelope) or "busy" (every slot sounding)
    off_seen,     \* the pool has seen a note_off or all_notes_off call
    went_idle     \* per slot: its envelope completed its release while the slot
                  \* was Active and the slot has not been flipped or re-allocated

VARIABLES
    main_q,       \* the main event channel: MIDI callback -> MultiEngineSynth
    inst_q,       \* per instance, its own event channel
    instances,    \* MultiEngineSynth::instances: engine, audio_channel,
                  \* uses_dual_channel
    pc,           \* where the audio thread is in MultiEngineSynth::process
    output,       \* the output buffer of the audio callback, per frame and channel
    rendered,     \* per instance, the buffers it rendered in the last callback
    sent,         \* the events the MIDI callback has sent, in order
    delivered,    \* per instance, the events its engine has received, in order
    applied,      \* per instance, the events that passed its channel filter
    callbacks     \* audio callbacks completed

VARIABLES
    cv,           \* one CVVoice (instruments/cv/voice.rs)
    cv_op,        \* the CVVoice method called last, its note, and whether the
                  \* gate was high when it was called
    held,         \* the notes pressed and not released since, oldest press first
    glide_from,   \* current_pitch when the last legato note_on started a glide
    glide_calls   \* next_pitch_sample calls since that note_on; -1 when another
                  \* call came after it (or there was none)

VARIABLES
    drum,         \* one DrumVoice (instruments/drums/voice.rs)
    drum_calls    \* next_sample calls since the last trigger; -1 before the first

VARIABLES
    midi_in,        \* the byte slice the MIDI callback was last called with
    midi_message,   \* what parse made of it
    midi_event,     \* the event the callback sent for it, NoSynthEvent if none
    midi_channel    \* parameters.midi_channel, the handler's channel filter

VARIABLES
    temp_buffer,    \* the length of the stream callback's temp_buffer
    data_len,       \* the length of the device buffer of the current callback
    allocs,         \* heap allocations made by the current (or last) callback
    seen,           \* the largest block, in frames, of the callbacks before it
    panicked,       \* a callback hit an out-of-bounds index, a failed assertion
                    \* or an arithmetic overflow
    drained,        \* events the current callback has received from main_q
    pending,        \* events main_q held when the current callback began
    frame_counter   \* frames rendered since the voice states were last sent

VARIABLES
    ui_config,   \* the editor's copy of each instance's configuration
    ui_params,   \* the parameter blocks the audio thread reads
    ui_op,       \* the editor operation performed last
    edits        \* editor operations performed

VARIABLES
    osc,         \* an oscillator driven on its own
    osc_op,      \* the oscillator method called last
    osc_calls    \* oscillator methods called

VARIABLES
    noise1,      \* a noise generator
    noise2,      \* a second generator made with the same seed
    samples1,    \* the samples noise1 has returned
    samples2     \* the samples noise2 has returned

VARIABLES
    run_file,        \* the configuration file run_config_mode is given
    run_pc,          \* where run_config_mode stands
    run_result,      \* what run_config_mode has returned
    midi_connected,  \* the MIDI input port is connected
    stream_started   \* the audio stream is started

VARIABLES
    lat_engines,  \* one engine of each kind: Synth, Kick, CV
    lat_queue,    \* the events waiting in the engines' queues
    lat_pc,       \* where the audio callback stands: the engine and the step
    lat_dirty,    \* kinds whose parameter block was written since the callback began
    lat_calls     \* callbacks begun

VARIABLES
    reverb,       \* a reverb: its sample rate and its delay lines
    rv_samples,   \* samples the reverb has processed
    rv_panicked   \* a delay line was indexed out of bounds

VARIABLES
    displaced     \* per slot, the note its last allocation took the slot from

VARIABLES
    note_life     \* per slot, since its last note_on: level found, samples rendered before the release, heard

envVars == <<env, op, since_on, since_off>>
lifeVars == <<note_life>>
stealVars == <<displaced>>
reverbVars == <<reverb, rv_samples, rv_panicked>>
latchVars == <<lat_engines, lat_queue, lat_pc, lat_dirty, lat_calls>>
runVars == <<run_file, run_pc, run_result, midi_connected, stream_started>>
noiseVars == <<noise1, noise2, samples1, samples2>>
oscVars == <<osc, osc_op, osc_calls>>
uiVars == <<ui_config, ui_params, ui_op, edits>>
streamVars == <<temp_buffer, data_len, allocs, seen, panicked, drained, pending,
                frame_counter>>
midiVars == <<midi_in, midi_message, midi_event, midi_channel>>
drumVars == <<drum, drum_calls>>
cvVars == <<cv, cv_op, held, glide_from, glide_calls>>
poolVars == <<pool, pool_op, off_seen, went_idle>>
mixVars == <<main_q, inst_q, instances, pc, output, rendered, sent, delivered,
             applied, callbacks>>
vars == <<env, op, since_on, since_off, pool, pool_op, off_seen, went_idle,
          main_q, inst_q, instances, pc, output, rendered, sent, delivered,
          applied, callbacks, cv, cv_op, held, glide_from, glide_calls,
          drum, drum_calls,
          midi_in, midi_message, midi_event, midi_channel,
          temp_buffer, data_len, allocs, seen, panicked, drained, pending, frame_counter,
          ui_config, ui_params, ui_op, edits,
          osc, osc_op, osc_calls,
          noise1, noise2, samples1, samples2,
          run_file, run_pc, run_result, midi_connected, stream_started,
          lat_engines, lat_queue, lat_pc, lat_dirty, lat_calls,
          reverb, rv_samples, rv_panicked,
          displaced,
          note_life>>

Max(a, b) == IF a >= b THEN a ELSE b
Min(a, b) == IF a <= b THEN a ELSE b
Clamp(x, lo, hi) == Max(lo, Min(x, hi))

\* ============================================================== Envelope
DefaultSustain == (7 * One) \div 10

\* Envelope::new
EnvelopeNew ==
    [state |-> "Idle", start_sample |-> 0, release_level |-> 0,
     attack |-> DefaultAttackMs, decay |-> DefaultDecayMs,
     sustain |-> DefaultSustain, release |-> DefaultReleaseMs,
     current_level |-> 0, sample_count |-> 0]

\* set_adsr storing what it is given
EnvSetAdsrNoClamp(e, a, d, s, r) ==
    [e EXCEPT !.attack = a, !.decay = d, !.sustain = s, !.release = r]

\* Envelope::set_adsr
EnvSetAdsr(e, a, d, s, r) ==
    [e EXCEPT !.attack = Max(a, MinTimeMs),
              !.decay = Max(d, MinTimeMs),
              !.sustain = Clamp(s, 0, One),
              !.release = Max(r, MinTimeMs)]

\* note_on jumping to full level
EnvNoteOnAtFull(e) ==
    [e EXCEPT !.state = "Attack", !.start_sample = e.sample_count,
              !.release_level = 0, !.current_level = One]

\* Envelope::note_on
EnvNoteOn(e) ==
    [e EXCEPT !.state = "Attack", !.start_sample = e.sample_count,
              !.release_level = 0]

\* note_off releasing from full level whatever the current level is
EnvNoteOffFromFull(e) ==
    [e EXCEPT !.state = "Release", !.start_sample = e.sample_count,
              !.release_level = One]

\* Envelope::note_off
EnvNoteOff(e) ==
    [e EXCEPT !.state = "Release", !.start_sample = e.sample_count,
              !.release_level = e.current_level]

\* Envelope::is_active
EnvIsActive(e) == e.state # "Idle"

\* (time * sample_rate) as u64
StageSamples(ms) == (ms * SampleRateHz) \div 1000

\* the Attack arm completing one sample late (elapsed > attack_samples)
EnvAttackStepLate(e) ==
    LET elapsed == e.sample_count - e.start_sample
        attack_samples == StageSamples(e.attack)
    IN  IF elapsed > attack_samples
        THEN [e EXCEPT !.current_level = One, !.state = "Decay",
                       !.start_sample = e.sample_count]
        ELSE [e EXCEPT !.current_level = (elapsed * One) \div attack_samples]

\* the Attack arm of Envelope::next_sample
EnvAttackStep(e) ==
    LET elapsed == e.sample_count - e.start_sample
        attack_samples == StageSamples(e.attack)
    IN  IF elapsed >= attack_samples
        THEN [e EXCEPT !.current_level = One, !.state = "Decay",
                       !.start_sample = e.sample_count]
        ELSE [e EXCEPT !.current_level = (elapsed * One) \div attack_samples]

\* the Decay arm of Envelope::next_sample
EnvDecayStep(e) ==
    LET elapsed == e.sample_count - e.start_sample
        decay_samples == StageSamples(e.decay)
    IN  IF elapsed >= decay_samples
        THEN [e EXCEPT !.current_level = e.sustain, !.state = "Sustain",
                       !.start_sample = 0]
        ELSE [e EXCEPT !.current_level =
                  One - (elapsed * (One - e.sustain)) \div decay_samples]

\* the Release arm never completing
EnvReleaseStepStuck(e) ==
    LET elapsed == e.sample_count - e.start_sample
        release_samples == StageSamples(e.release)
    IN  [e EXCEPT !.current_level =
            Max(0, (e.release_level * (release_samples - elapsed)) \div release_samples)]

\* the Release arm of Envelope::next_sample
EnvReleaseStep(e) ==
    LET elapsed == e.sample_count - e.start_sample
        release_samples == StageSamples(e.release)
    IN  IF elapsed >= release_samples
        THEN [e EXCEPT !.current_level = 0, !.state = "Idle",
                       !.start_sample = 0, !.release_level = 0]
        ELSE [e EXCEPT !.current_level =
                  (e.release_level * (release_samples - elapsed)) \div release_samples]

\* Envelope::next_sample: the envelope after the call; the value returned is
\* its current_level
EnvNextSample(e) ==
    LET stepped ==
            CASE e.state = "Idle" -> [e EXCEPT !.current_level = 0]
              [] e.state = "Attack" -> EnvAttackStep(e)
              [] e.state = "Decay" -> EnvDecayStep(e)
              [] e.state = "Sustain" -> [e EXCEPT !.current_level = e.sustain]
              [] e.state = "Release" -> EnvReleaseStep(e)
    IN  [stepped EXCEPT !.sample_count = e.sample_count + 1]

\* ============================================================ Oscillator
\* a phase is a number of 1/SampleRateHz units, so that
\* phase_delta = frequency / sample_rate is the frequency in Hz
\* Waveform::generate, in 1/One units.  Sine is Bhaskara's rational
\* approximation of sin (error below 0.002), exact at the quarter phases.
WaveformGenerate(w, phase) ==
    LET S == SampleRateHz
        half == IF 2 * phase < S THEN phase ELSE phase - (S \div 2)
        q == 2 * half * (S - 2 * half)
        arch == (One * 16 * q) \div (5 * S * S - 4 * q)
    IN  CASE w = "Sine" -> IF 2 * phase < S THEN arch ELSE 0 - arch
          [] w = "Triangle" ->
                IF 2 * phase < S THEN (4 * phase * One) \div S - One
                ELSE 3 * One - (4 * phase * One) \div S
          [] w = "Sawtooth" -> (2 * phase * One) \div S - One
          [] w = "Square" -> IF 2 * phase < S THEN One ELSE 0 - One

\* Waveform::from_u8
WaveformFromU8(v) ==
    CASE v = 1 -> "Triangle" [] v = 2 -> "Sawtooth" [] v = 3 -> "Square"
      [] OTHER -> "Sine"

\* Oscillator::new
OscillatorNew ==
    [phase |-> 0, phase_delta |-> DefaultFrequency,
     frequency |-> DefaultFrequency, waveform |-> "Sine"]

\* Oscillator::set_frequency (with update_phase_delta)
OscSetFrequency(o, f) == [o EXCEPT !.frequency = f, !.phase_delta = f]

\* Oscillator::set_waveform
OscSetWaveform(o, w) == [o EXCEPT !.waveform = w]

\* Oscillator::reset
OscReset(o) == [o EXCEPT !.phase = 0]

\* Oscillator::next_sample: the value returned
OscOutput(o) == WaveformGenerate(o.waveform, o.phase)

\* Oscillator::next_sample: the oscillator after the call (one wrap only)
OscAdvance(o) ==
    LET ph == o.phase + o.phase_delta
    IN  [o EXCEPT !.phase = IF ph >= SampleRateHz THEN ph - SampleRateHz ELSE ph]

\* ================================================================= Voice
\* Voice::new
VoiceNew == [oscillator |-> OscillatorNew, envelope |-> EnvelopeNew]

\* Voice::note_on
VoiceNoteOn(v, frequency) ==
    [oscillator |-> OscReset(OscSetFrequency(v.oscillator, frequency)),
     envelope |-> EnvNoteOn(v.envelope)]

\* Voice::note_off
VoiceNoteOff(v) == [v EXCEPT !.envelope = EnvNoteOff(v.envelope)]

\* Voice::set_adsr
VoiceSetAdsr(v, a, d, s, r) == [v EXCEPT !.envelope = EnvSetAdsr(v.envelope, a, d, s, r)]

\* Voice::set_waveform
VoiceSetWaveform(v, w) == [v EXCEPT !.oscillator = OscSetWaveform(v.oscillator, w)]

\* Voice::is_active
VoiceIsActive(v) == EnvIsActive(v.envelope)

\* Voice::next_sample: the voice after the call
VoiceAdvance(v) ==
    [oscillator |-> OscAdvance(v.oscillator), envelope |-> EnvNextSample(v.envelope)]

\* Voice::next_sample: the value returned, VCA::process(osc, level) with gain
\* 0.8, in 1/(10*One*One) units
VoiceOutput(v) ==
    OscOutput(v.oscillator) * EnvNextSample(v.envelope).current_level * GainTenths

\* the voice after n calls of next_sample
RECURSIVE VoiceAfter(_, _)
VoiceAfter(v, n) == IF n = 0 THEN v ELSE VoiceAfter(VoiceAdvance(v), n - 1)

\* ============================================================= VoicePool
\* PoolVoice::new; note is -1 in VoiceState::Idle
PoolVoiceNew == [voice |-> VoiceNew, state |-> "Idle", note |-> -1, age |-> 0]

\* PoolVoice::is_idle
IsIdle(pv) == pv.state = "Idle"

\* PoolVoice::is_active
IsActive(pv) == pv.state = "Active"

\* PoolVoice::is_releasing
IsReleasing(pv) == IsActive(pv) /\ ~VoiceIsActive(pv.voice)

\* VoicePool::new, with n slots
VoicePoolNew(n) == [voices |-> [i \in 0..(n - 1) |-> PoolVoiceNew], global_age |-> 0]

\* the least element of a non-empty set of slot indices (Iterator::position)
First(S) == CHOOSE i \in S : \A j \in S : i <= j

\* max_by_key instead of min_by_key ("higher = older")
NewestSlot(p) ==
    CHOOSE i \in DOMAIN p.voices :
        \A j \in DOMAIN p.voices :
            \/ p.voices[i].age > p.voices[j].age
            \/ (p.voices[i].age = p.voices[j].age /\ i >= j)

\* min_by_key(|(_, v)| v.age): the first slot of minimal age
OldestSlot(p) ==
    CHOOSE i \in DOMAIN p.voices :
        \A j \in DOMAIN p.voices :
            \/ p.voices[i].age < p.voices[j].age
            \/ (p.voices[i].age = p.voices[j].age /\ i <= j)

\* find_voice_for_note without its second step
FindVoiceNoReleasing(p) ==
    LET idle == {i \in DOMAIN p.voices : IsIdle(p.voices[i])}
    IN  IF idle # {} THEN First(idle) ELSE OldestSlot(p)

\* VoicePool::find_voice_for_note
FindVoiceForNote(p) ==
    LET idle == {i \in DOMAIN p.voices : IsIdle(p.voices[i])}
        releasing == {i \in DOMAIN p.voices : IsReleasing(p.voices[i])}
    IN  IF idle # {} THEN First(idle)
        ELSE IF releasing # {} THEN First(releasing)
        ELSE OldestSlot(p)

\* note_on without the increment of global_age
PoolNoteOnSameAge(p, note, frequency) ==
    LET voice_idx == FindVoiceForNote(p)
    IN  [voices |-> [p.voices EXCEPT ![voice_idx] =
                        [voice |-> VoiceNoteOn(p.voices[voice_idx].voice, frequency),
                         state |-> "Active", note |-> note, age |-> p.global_age]],
         global_age |-> p.global_age]

\* VoicePool::note_on
PoolNoteOn(p, note, frequency) ==
    LET voice_idx == FindVoiceForNote(p)
    IN  [voices |-> [p.voices EXCEPT ![voice_idx] =
                        [voice |-> VoiceNoteOn(p.voices[voice_idx].voice, frequency),
                         state |-> "Active", note |-> note, age |-> p.global_age]],
         global_age |-> p.global_age + 1]

\* note_off releasing every Active voice, whatever its note
PoolNoteOffAnyNote(p, note) ==
    [p EXCEPT !.voices = [i \in DOMAIN p.voices |->
        IF p.voices[i].state = "Active"
        THEN [p.voices[i] EXCEPT !.voice = VoiceNoteOff(p.voices[i].voice)]
        ELSE p.voices[i]]]

\* VoicePool::note_off
PoolNoteOff(p, note) ==
    [p EXCEPT !.voices = [i \in DOMAIN p.voices |->
        IF p.voices[i].state = "Active" /\ p.voices[i].note = note
        THEN [p.voices[i] EXCEPT !.voice = VoiceNoteOff(p.voices[i].voice)]
        ELSE p.voices[i]]]

\* all_notes_off releasing nothing
PoolAllNotesOffNone(p) == p

\* VoicePool::all_notes_off
PoolAllNotesOff(p) ==
    [p EXCEPT !.voices = [i \in DOMAIN p.voices |->
        IF IsActive(p.voices[i])
        THEN [p.voices[i] EXCEPT !.voice = VoiceNoteOff(p.voices[i].voice)]
        ELSE p.voices[i]]]

\* update_voice_states flipping nothing
UpdateVoiceStatesNone(p) == p

\* VoicePool::update_voice_states
UpdateVoiceStates(p) ==
    [p EXCEPT !.voices = [i \in DOMAIN p.voices |->
        IF IsActive(p.voices[i]) /\ ~VoiceIsActive(p.voices[i].voice)
        THEN [p.voices[i] EXCEPT !.state = "Idle", !.note = -1]
        ELSE p.voices[i]]]

\* VoicePool::set_adsr
PoolSetAdsr(p, a, d, s, r) ==
    [p EXCEPT !.voices = [i \in DOMAIN p.voices |->
        [p.voices[i] EXCEPT !.voice = VoiceSetAdsr(p.voices[i].voice, a, d, s, r)]]]

\* VoicePool::set_waveform
PoolSetWaveform(p, w) ==
    [p EXCEPT !.voices = [i \in DOMAIN p.voices |->
        [p.voices[i] EXCEPT !.voice = VoiceSetWaveform(p.voices[i].voice, w)]]]

\* VoicePool::process: the pool after rendering a buffer of `frames` samples
PoolProcess(p, frames) ==
    LET u == UpdateVoiceStates(p)
    IN  [u EXCEPT !.voices = [i \in DOMAIN u.voices |->
            IF ~IsIdle(u.voices[i])
            THEN [u.voices[i] EXCEPT !.voice = VoiceAfter(u.voices[i].voice, frames)]
            ELSE u.voices[i]]]

\* the sum of a function over a set of slot indices
RECURSIVE SumOver(_, _)
SumOver(f, S) ==
    IF S = {} THEN 0
    ELSE LET i == First(S) IN f[i] + SumOver(f, S \ {i})

\* VoicePool::process: the buffer it writes, frame by frame, in units of
\* 1/sqrt(MAX_VOICES) * 1/(10*One*One): the sum of the non-idle voices' samples
PoolOutput(p, frames) ==
    LET u == UpdateVoiceStates(p)
        live == {i \in DOMAIN u.voices : ~IsIdle(u.voices[i])}
    IN  [f \in 1..frames |->
            SumOver([i \in live |-> VoiceOutput(VoiceAfter(u.voices[i].voice, f - 1))], live)]

\* VoicePool::voice_states
VoiceStates(p) == [i \in DOMAIN p.voices |-> p.voices[i].note]


\* ======================================================== App (the editor)
\* times are in ms, levels and mixes in hundredths, frequencies in Hz, the
\* waveform is its to_u8 number, transpose is in semitones

\* the instances of the editor, one of each kind
InstanceKinds == {"Synth", "Kick", "Snare", "Hat", "CV"}

\* Parameter, DrumParameter and CVParameter: the fields each kind edits
FieldsOf(kind) ==
    CASE kind = "Synth" -> {"attack", "decay", "sustain", "release", "wave"}
      [] kind = "Kick" -> {"kick_pitch_start", "kick_pitch_end", "kick_pitch_decay",
                           "kick_decay", "kick_click"}
      [] kind = "Snare" -> {"snare_tone_freq", "snare_tone_mix", "snare_decay",
                            "snare_snap"}
      [] kind = "Hat" -> {"hat_brightness", "hat_decay", "hat_metallic"}
      [] kind = "CV" -> {"transpose", "glide"}

AllFields == UNION {FieldsOf(kind) : kind \in InstanceKinds}

\* the amount one increase_value or decrease_value adds or takes
Step(field) ==
    CASE field \in {"attack", "decay"} -> 10
      [] field = "sustain" -> 5
      [] field = "release" -> 50
      [] field = "wave" -> 1
      [] field = "kick_pitch_start" -> 5
      [] field = "kick_pitch_end" -> 2
      [] field = "kick_pitch_decay" -> 10
      [] field = "kick_decay" -> 50
      [] field = "kick_click" -> 5
      [] field = "snare_tone_freq" -> 5
      [] field = "snare_tone_mix" -> 5
      [] field = "snare_decay" -> 10
      [] field = "snare_snap" -> 5
      [] field = "hat_brightness" -> 100
      [] field = "hat_decay" -> 10
      [] field = "hat_metallic" -> 5
      [] field = "transpose" -> 1
      [] field = "glide" -> 50

\* the .min(..) of increase_value
EditorMax(field) ==
    CASE field \in {"attack", "decay"} -> 2000
      [] field = "sustain" -> 100
      [] field = "release" -> 5000
      [] field = "wave" -> 3
      [] field = "kick_pitch_start" -> 300
      [] field = "kick_pitch_end" -> 100
      [] field = "kick_pitch_decay" -> 200
      [] field = "kick_decay" -> 1000
      [] field = "kick_click" -> 100
      [] field = "snare_tone_freq" -> 300
      [] field = "snare_tone_mix" -> 100
      [] field = "snare_decay" -> 500
      [] field = "snare_snap" -> 100
      [] field = "hat_brightness" -> 12000
      [] field = "hat_decay" -> 500
      [] field = "hat_metallic" -> 100
      [] field = "transpose" -> 24
      [] field = "glide" -> 2000

\* the .max(..) of decrease_value
EditorMin(field) ==
    CASE field \in {"attack", "decay", "release"} -> 1
      [] field = "sustain" -> 0
      [] field = "wave" -> 0
      [] field = "kick_pitch_start" -> 100
      [] field = "kick_pitch_end" -> 30
      [] field = "kick_pitch_decay" -> 10
      [] field = "kick_decay" -> 100
      [] field = "kick_click" -> 0
      [] field = "snare_tone_freq" -> 150
      [] field = "snare_tone_mix" -> 0
      [] field = "snare_decay" -> 50
      [] field = "snare_snap" -> 0
      [] field = "hat_brightness" -> 5000
      [] field = "hat_decay" -> 20
      [] field = "hat_metallic" -> 0
      [] field = "transpose" -> 0 - 24
      [] field = "glide" -> 0

\* the range of a CV field in a valid configuration.  The source tree holds
\* no CVInstanceConfig; the range is the design document's (section 6:
\* transpose in -24..24, glide in 0..2 s).
CVValidRange(field) ==
    CASE field = "transpose" -> [min |-> 0 - 24, max |-> 24, default |-> 0]
      [] field = "glide" -> [min |-> 0, max |-> 2000, default |-> 0]

\* the range SynthInstanceConfig::validate and DrumInstanceConfig::validate
\* accept for a field, and the field's serde default
ValidRange(field) ==
    CASE field \in {"attack"} -> [min |-> 0, max |-> 10000, default |-> 10]
      [] field \in {"decay", "release"} -> [min |-> 0, max |-> 10000, default |-> 100]
      [] field = "sustain" -> [min |-> 0, max |-> 100, default |-> 70]
      [] field = "wave" -> [min |-> 0, max |-> 3, default |-> 0]
      [] field = "kick_pitch_start" -> [min |-> 100, max |-> 300, default |-> 150]
      [] field = "kick_pitch_end" -> [min |-> 30, max |-> 100, default |-> 40]
      [] field = "kick_pitch_decay" -> [min |-> 10, max |-> 200, default |-> 50]
      [] field = "kick_decay" -> [min |-> 100, max |-> 1000, default |-> 300]
      [] field = "kick_click" -> [min |-> 0, max |-> 100, default |-> 30]
      [] field = "snare_tone_freq" -> [min |-> 150, max |-> 300, default |-> 200]
      [] field = "snare_tone_mix" -> [min |-> 0, max |-> 100, default |-> 65]
      [] field = "snare_decay" -> [min |-> 50, max |-> 500, default |-> 150]
      [] field = "snare_snap" -> [min |-> 0, max |-> 100, default |-> 70]
      [] field = "hat_brightness" -> [min |-> 5000, max |-> 12000, default |-> 7000]
      [] field = "hat_decay" -> [min |-> 20, max |-> 500, default |-> 50]
      [] field = "hat_metallic" -> [min |-> 0, max |-> 100, default |-> 40]
      [] OTHER -> CVValidRange(field)

\* increase_value without the .min(..)
IncreaseUnclamped(config, field) ==
    IF field \notin DOMAIN config THEN config
    ELSE IF field = "wave" THEN [config EXCEPT !.wave = (@ + 1) % 4]
    ELSE [config EXCEPT ![field] = @ + Step(field)]

\* App::increase_value on the selected field of an instance's configuration;
\* a field the instance does not have is left alone
IncreaseValue(config, field) ==
    IF field \notin DOMAIN config THEN config
    ELSE IF field = "wave" THEN [config EXCEPT !.wave = (@ + 1) % 4]
    ELSE [config EXCEPT ![field] = Min(@ + Step(field), EditorMax(field))]

\* App::decrease_value
DecreaseValue(config, field) ==
    IF field \notin DOMAIN config THEN config
    ELSE IF field = "wave" THEN [config EXCEPT !.wave = (@ + 3) % 4]
    ELSE [config EXCEPT ![field] = Max(@ - Step(field), EditorMin(field))]

\* App::sync_multi_instance_to_audio: every field of the current instance is
\* stored into its parameter block
SyncToAudio(params, configs, kind) == [params EXCEPT ![kind] = configs[kind]]

\* ======================================================== NoiseGenerator
\* The u32 state is kept as two 16-bit limbs, [hi, lo] = hi * 2^16 + lo, so
\* that the wrapping product and sum are computed exactly modulo 2^32 with
\* no intermediate value above 2^31.
Limb == 65536

\* the multiplier 1664525 and the increment 1013904223 in limbs
LcgMulHi == 25
LcgMulLo == 26125
LcgAddHi == 15470
LcgAddLo == 62303

\* the default seed 0x12345678 in limbs
DefaultSeedHi == 4660
DefaultSeedLo == 22136

\* NoiseGenerator::new_with_seed
NoiseNewWithSeed(seed) == [state |-> seed]

\* NoiseGenerator::new
NoiseNew == NoiseNewWithSeed([hi |-> DefaultSeedHi, lo |-> DefaultSeedLo])

\* state.wrapping_mul(1664525).wrapping_add(1013904223)
LcgNext(state) ==
    LET low == state.lo * LcgMulLo
        lowsum == (low % Limb) + LcgAddLo
        cross == (state.hi * LcgMulLo + state.lo * LcgMulHi) % Limb
    IN  [hi |-> (cross + (low \div Limb) + (lowsum \div Limb) + LcgAddHi) % Limb,
         lo |-> lowsum % Limb]

\* the unit in the last place of an f32 holding a u32 with this high limb:
\* 24 bits of mantissa, so a value of 2^24 or more is a multiple of 2^(e-23)
F32Ulp(hi) ==
    CASE hi >= 32768 -> 256
      [] hi >= 16384 -> 128
      [] hi >= 8192 -> 64
      [] hi >= 4096 -> 32
      [] hi >= 2048 -> 16
      [] hi >= 1024 -> 8
      [] hi >= 512 -> 4
      [] hi >= 256 -> 2
      [] OTHER -> 1

\* `state as f32`: rounded to the nearest representable value, ties to even;
\* the result may be 2^32, hi = Limb
AsF32(state) ==
    LET ulp == F32Ulp(state.hi)
        q == state.lo \div ulp
        r == state.lo % ulp
        up == 2 * r > ulp \/ (2 * r = ulp /\ q % 2 = 1)
        lo == (IF up THEN q + 1 ELSE q) * ulp
    IN  IF lo = Limb THEN [hi |-> state.hi + 1, lo |-> 0]
        ELSE [hi |-> state.hi, lo |-> lo]

\* normalisation by twice the f32 value: (x / 2^31) - 1 with x the f32 of the
\* state.  Not what the code computes.
NormalizeByHalf(x) == [whole |-> 2 * x.hi - Limb, frac |-> 2 * x.lo]

\* (x / u32::MAX as f32) * 2.0 - 1.0, with u32::MAX as f32 = 2^32: the
\* sample is whole / 2^15 + frac / 2^31.  The division and the doubling are
\* exact; the subtraction rounds to the nearest f32, which is monotone and
\* leaves -1 and 1 where they are.
Normalize(x) == [whole |-> x.hi - (Limb \div 2), frac |-> x.lo]

\* NoiseGenerator::next_sample: the generator after the call
NoiseAdvance(n) == [n EXCEPT !.state = LcgNext(n.state)]

\* NoiseGenerator::next_sample: the sample returned
NoiseOutput(n) == Normalize(AsF32(LcgNext(n.state)))

\* =========================================================== SynthConfig
\* results of the fallible calls: "Ok" or the step that failed
NoResult == "None"

\* a MIDI channel specification: Channel(ch) is the number ch, Omni(_) is
\* OmniSpec
OmniSpec == 0 - 1

MidiChValid(midich) == midich = OmniSpec \/ (midich >= 1 /\ midich <= 16)

\* a field of an instance is inside the range the validator accepts
FieldValid(config, field) ==
    config[field] >= ValidRange(field).min /\ config[field] <= ValidRange(field).max

\* SynthInstanceConfig::validate
SynthInstanceValidate(c) ==
    /\ \A field \in {"attack", "decay", "sustain", "release"} : FieldValid(c, field)
    /\ MidiChValid(c.midich)
    /\ c.audioch >= 1

\* a Result<i32>: Err(_) carries no value here
ParseErr == [ok |-> FALSE, value |-> 0]
ParseOk(v) == [ok |-> TRUE, value |-> v]

\* the digits of an octave string
Digits == [c \in {"0", "1", "2", "3", "4", "5", "6", "7", "8", "9"} |->
              CASE c = "0" -> 0 [] c = "1" -> 1 [] c = "2" -> 2 [] c = "3" -> 3
                [] c = "4" -> 4 [] c = "5" -> 5 [] c = "6" -> 6 [] c = "7" -> 7
                [] c = "8" -> 8 [] c = "9" -> 9]

\* the value of a string of digits; Err at a '-'
RECURSIVE DigitsValue(_, _)
DigitsValue(s, acc) ==
    IF s = <<>> THEN ParseOk(acc)
    ELSE IF Head(s) \notin DOMAIN Digits THEN ParseErr
    ELSE DigitsValue(Tail(s), acc * 10 + Digits[Head(s)])

\* str::parse::<i32> on a string of digits and '-'
ParseI32(s) ==
    IF s = <<>> THEN ParseErr
    ELSE IF Head(s) = "-"
         THEN IF Tail(s) = <<>> THEN ParseErr
              ELSE LET v == DigitsValue(Tail(s), 0)
                   IN  IF v.ok THEN ParseOk(0 - v.value) ELSE ParseErr
    ELSE DigitsValue(s, 0)

\* the loop of parse_note over the characters after the first: the offset
\* and the octave string, or an error at a character that is none of them
RECURSIVE NoteTail(_, _, _)
NoteTail(chars, offset, octave_str) ==
    IF chars = <<>> THEN [ok |-> TRUE, offset |-> offset, octave_str |-> octave_str]
    ELSE LET ch == Head(chars)
         IN  CASE ch \in {"#", "s"} -> NoteTail(Tail(chars), 1, octave_str)
               [] ch \in {"b", "f"} -> NoteTail(Tail(chars), 0 - 1, octave_str)
               [] ch \in DOMAIN Digits \cup {"-"} ->
                      NoteTail(Tail(chars), offset, Append(octave_str, ch))
               [] OTHER -> [ok |-> FALSE, offset |-> 0, octave_str |-> <<>>]

\* the semitone of a note letter
BaseNotes == [c \in {"c", "d", "e", "f", "g", "a", "b"} |->
                 CASE c = "c" -> 0 [] c = "d" -> 2 [] c = "e" -> 4 [] c = "f" -> 5
                   [] c = "g" -> 7 [] c = "a" -> 9 [] c = "b" -> 11]

\* DrumInstanceConfig::parse_note on the (lower-cased) characters of the note
ParseNote(note) ==
    IF note = <<>> THEN ParseErr
    ELSE IF Head(note) \notin DOMAIN BaseNotes THEN ParseErr
    ELSE LET rest == NoteTail(Tail(note), 0, <<>>)
         IN  IF ~rest.ok THEN ParseErr
             ELSE LET octave == ParseI32(rest.octave_str)
                  IN  IF ~octave.ok THEN ParseErr
                      ELSE LET midi_note == (octave.value + 1) * 12
                                            + BaseNotes[Head(note)] + rest.offset
                           IN  IF midi_note < 0 \/ midi_note > 127 THEN ParseErr
                               ELSE ParseOk(midi_note)

\* DrumInstanceConfig::validate: only the fields of the instance's own drum
\* type are checked
DrumInstanceValidate(c) ==
    /\ MidiChValid(c.midich)
    /\ c.audioch >= 1
    /\ ParseNote(c.note).ok
    /\ \A field \in FieldsOf(c.drum_type) : FieldValid(c, field)

\* SynthConfig::validate
SynthConfigValidate(config) ==
    /\ ~(config.poly16s = <<>> /\ config.drums = <<>>)
    /\ \A i \in 1..Len(config.poly16s) : SynthInstanceValidate(config.poly16s[i])
    /\ \A i \in 1..Len(config.drums) : DrumInstanceValidate(config.drums[i])

\* SynthConfig::load without the call of validate
SynthConfigLoadUnvalidated(file) ==
    IF ~file.readable THEN "read"
    ELSE IF ~file.well_formed THEN "parse"
    ELSE "Ok"

\* SynthConfig::load: read_to_string, serde_yaml::from_str, validate
SynthConfigLoad(file) ==
    IF ~file.readable THEN "read"
    ELSE IF ~file.well_formed THEN "parse"
    ELSE IF ~SynthConfigValidate(file.config) THEN "validate"
    ELSE "Ok"

\* ================================================================ Reverb
\* the sample rate the delays are tuned for
TunedRate == 44100

\* the delays of the comb and of the all-pass filters at the tuned rate
CombBases == <<1557, 1617, 1491, 1422, 1277, 1356, 1188, 1116>>
AllPassBases == <<225, 556, 441, 341>>

\* (base * scale) as usize with scale = sample_rate / 44100.0: the cast
\* truncates.  Sample rates are whole numbers of Hz here, and those used are
\* such that no product lies within an f32 rounding error of a whole number
\* unless it is one exactly.
DelaySize(base, sample_rate) == (base * sample_rate) \div TunedRate

\* CombFilter::new, AllPassFilter::new: vec![0.0; size] and index 0
DelayLineNew(size) == [len |-> size, index |-> 0]

\* Reverb::new
ReverbNew(sample_rate) ==
    [comb_filters |-> [i \in DOMAIN CombBases |->
                          DelayLineNew(DelaySize(CombBases[i], sample_rate))],
     allpass_filters |-> [i \in DOMAIN AllPassBases |->
                             DelayLineNew(DelaySize(AllPassBases[i], sample_rate))]]

\* CombFilter::process, AllPassFilter::process: self.buffer[self.index]
\* panics on an empty buffer
DelayPanics(line) == line.index >= line.len

\* CombFilter::process, AllPassFilter::process: the circular index advances
DelayProcess(line) == [line EXCEPT !.index = (line.index + 1) % line.len]

\* Reverb::process panics at the first filter whose buffer is empty
ReverbPanics(rv) ==
    \/ \E i \in DOMAIN rv.comb_filters : DelayPanics(rv.comb_filters[i])
    \/ \E i \in DOMAIN rv.allpass_filters : DelayPanics(rv.allpass_filters[i])

\* Reverb::process: every comb filter, then every all-pass filter
ReverbProcess(rv) ==
    [comb_filters |-> [i \in DOMAIN rv.comb_filters |-> DelayProcess(rv.comb_filters[i])],
     allpass_filters |-> [i \in DOMAIN rv.allpass_filters |->
                             DelayProcess(rv.allpass_filters[i])]]

\* ================================================================ events
\* SynthEvent.  Every event is a record of the same shape: note and frequency
\* are 0 where the variant has none, channel is NoChannel for
\* AllNotesOff { channel: None }.
NoChannel == 0 - 1

NoteOnEvent(c, n, f) == [type |-> "NoteOn", channel |-> c, note |-> n, frequency |-> f]
NoteOffEvent(c, n) == [type |-> "NoteOff", channel |-> c, note |-> n, frequency |-> 0]
AllNotesOffEvent(c) == [type |-> "AllNotesOff", channel |-> c, note |-> 0, frequency |-> 0]

\* SynthEvent::channel
EventChannel(e) == e.channel

RECURSIVE Pow2(_)
Pow2(k) == IF k = 0 THEN 1 ELSE 2 * Pow2(k - 1)

\* 2^(s/12) in thousandths, s = 0..11
SemitoneRatio ==
    <<1000, 1059, 1122, 1189, 1260, 1335, 1414, 1498, 1587, 1682, 1782, 1888>>

\* midi_note_to_frequency: 440 * 2^((note - 69) / 12), in whole Hz
MidiNoteToFrequency(note) ==
    LET semitones == note - 69
        octave == IF semitones >= 0 THEN semitones \div 12
                  ELSE 0 - ((11 - semitones) \div 12)
        s == semitones - 12 * octave
    IN  IF octave >= 0
        THEN (DefaultFrequency * SemitoneRatio[s + 1] * Pow2(octave)) \div 1000
        ELSE (DefaultFrequency * SemitoneRatio[s + 1]) \div (1000 * Pow2(0 - octave))


\* =========================================================== MidiMessage
\* a byte slice is a sequence of numbers 0..255

\* midi_velocity_to_amplitude: (velocity / 127).clamp(0, 1), in 1/127
MidiVelocityToAmplitude(velocity) == Clamp(velocity, 0, 127)

UnknownMessage == [kind |-> "Unknown"]

\* parse that trusts the slice to hold three bytes
ParseUnchecked(bytes) ==
    IF bytes = <<>> THEN UnknownMessage
    ELSE LET message_type == (bytes[1] \div 16) * 16
             channel == bytes[1] % 16
             note == IF Len(bytes) >= 2 THEN bytes[2] ELSE 0
             velocity == IF Len(bytes) >= 3 THEN bytes[3] ELSE 0
         IN  CASE message_type = 144 ->
                     IF velocity = 0
                     THEN [kind |-> "NoteOff", channel |-> channel, note |-> note,
                           velocity |-> 0]
                     ELSE [kind |-> "NoteOn", channel |-> channel, note |-> note,
                           velocity |-> velocity]
               [] message_type = 128 ->
                     [kind |-> "NoteOff", channel |-> channel, note |-> note,
                      velocity |-> velocity]
               [] message_type = 176 ->
                     [kind |-> "ControlChange", channel |-> channel,
                      controller |-> note, value |-> velocity]
               [] OTHER -> UnknownMessage

\* MidiMessage::parse
Parse(bytes) ==
    IF bytes = <<>> THEN UnknownMessage
    ELSE LET status == bytes[1]
             message_type == (status \div 16) * 16
             channel == status % 16
         IN  CASE message_type = 144 ->
                     IF Len(bytes) >= 3
                     THEN LET note == bytes[2]
                              velocity == bytes[3]
                          IN  IF velocity = 0
                              THEN [kind |-> "NoteOff", channel |-> channel,
                                    note |-> note, velocity |-> 0]
                              ELSE [kind |-> "NoteOn", channel |-> channel,
                                    note |-> note, velocity |-> velocity]
                     ELSE UnknownMessage
               [] message_type = 128 ->
                     IF Len(bytes) >= 3
                     THEN [kind |-> "NoteOff", channel |-> channel,
                           note |-> bytes[2], velocity |-> bytes[3]]
                     ELSE UnknownMessage
               [] message_type = 176 ->
                     IF Len(bytes) >= 3
                     THEN [kind |-> "ControlChange", channel |-> channel,
                           controller |-> bytes[2], value |-> bytes[3]]
                     ELSE UnknownMessage
               [] OTHER -> UnknownMessage

\* Option::None of to_synth_event
NoSynthEvent == [type |-> "None"]

\* MidiMessage::to_synth_event.  The events are built from what the calls
\* pass: note_on(frequency, amplitude), note_off(note), all_notes_off().
ToSynthEvent(msg, channel_filter) ==
    CASE msg.kind = "NoteOn" ->
             IF channel_filter # Omni /\ msg.channel # channel_filter THEN NoSynthEvent
             ELSE [type |-> "NoteOn", frequency |-> MidiNoteToFrequency(msg.note),
                   velocity |-> MidiVelocityToAmplitude(msg.velocity)]
      [] msg.kind = "NoteOff" ->
             IF channel_filter # Omni /\ msg.channel # channel_filter THEN NoSynthEvent
             ELSE [type |-> "NoteOff", note |-> msg.note]
      [] msg.kind = "ControlChange" ->
             IF channel_filter # Omni /\ msg.channel # channel_filter THEN NoSynthEvent
             ELSE IF msg.controller = 123 THEN [type |-> "AllNotesOff"]
             ELSE NoSynthEvent
      [] OTHER -> NoSynthEvent

\* =============================================================== CVVoice
\* a pitch is a number of 1/(120 * PitchSub) units (1.0 = 10 V, a semitone is
\* 1/120), a glide time is in ms, glide_samples_left in 1/1000 sample

\* CVVoice::new
CVVoiceNew ==
    [note_stack |-> <<>>, current_pitch |-> 0, target_pitch |-> 0, transpose |-> 0,
     glide_time |-> 0, glide_step |-> 0, glide_samples_left |-> 0, gate_high |-> FALSE]

\* CVVoice::note_to_voltage
NoteToVoltage(note, transpose) == (Clamp(note + transpose, 0, 127) - 60) * PitchSub

\* CVVoice::start_glide
StartGlide(v) ==
    LET distance == v.target_pitch - v.current_pitch
        total_samples == v.glide_time * SampleRateHz
        size == IF distance < 0 THEN 0 - distance ELSE distance
        step == (size * 1000) \div total_samples
    IN  IF v.glide_time <= 0 \/ distance = 0
        THEN [v EXCEPT !.current_pitch = v.target_pitch, !.glide_step = 0,
                       !.glide_samples_left = 0]
        ELSE [v EXCEPT !.glide_step = IF distance < 0 THEN 0 - step ELSE step,
                       !.glide_samples_left = total_samples]

\* a push that never replaces: the stack grows past its capacity
StackPushUnbounded(stack, note) ==
    IF \E k \in 1..Len(stack) : stack[k] = note THEN stack ELSE Append(stack, note)

\* the note stack after CVVoice::note_on
StackPush(stack, note) ==
    IF \E k \in 1..Len(stack) : stack[k] = note THEN stack
    ELSE IF Len(stack) < MAX_NOTES THEN Append(stack, note)
    ELSE [stack EXCEPT ![1] = note]

\* note_on gliding from wherever the pitch is, also on a fresh gate
CVNoteOnAlwaysGlides(v, note) ==
    LET target == NoteToVoltage(note, v.transpose)
        pushed == [v EXCEPT !.note_stack = StackPush(v.note_stack, note),
                            !.target_pitch = target]
    IN  [StartGlide(pushed) EXCEPT !.gate_high = TRUE]

\* CVVoice::note_on
CVNoteOn(v, note) ==
    LET target == NoteToVoltage(note, v.transpose)
        pushed == [v EXCEPT !.note_stack = StackPush(v.note_stack, note),
                            !.target_pitch = target]
        moved == IF ~v.gate_high
                 THEN [pushed EXCEPT !.current_pitch = target, !.glide_samples_left = 0]
                 ELSE StartGlide(pushed)
    IN  [moved EXCEPT !.gate_high = TRUE]

\* CVVoice::note_off
CVNoteOff(v, note) ==
    LET kept == SelectSeq(v.note_stack, LAMBDA n : n # note)
    IN  IF kept = <<>>
        THEN [v EXCEPT !.note_stack = kept, !.gate_high = FALSE]
        ELSE StartGlide([v EXCEPT !.note_stack = kept,
                                  !.target_pitch = NoteToVoltage(kept[Len(kept)], v.transpose)])

\* all_notes_off leaving the gate as it is
CVAllNotesOffGateKept(v) == [v EXCEPT !.note_stack = <<>>]

\* CVVoice::all_notes_off
CVAllNotesOff(v) == [v EXCEPT !.note_stack = <<>>, !.gate_high = FALSE]

\* CVVoice::set_glide_time
CVSetGlideTime(v, time) == [v EXCEPT !.glide_time = time]

\* CVVoice::set_transpose
CVSetTranspose(v, transpose) ==
    LET set == [v EXCEPT !.transpose = transpose]
        stack == v.note_stack
    IN  IF stack = <<>> THEN set
        ELSE StartGlide([set EXCEPT !.target_pitch =
                                        NoteToVoltage(stack[Len(stack)], transpose)])

\* next_pitch_sample without the snap to the target at the end of the glide
CVNextPitchSampleNoSnap(v) ==
    IF v.glide_samples_left > 0
    THEN [v EXCEPT !.glide_samples_left = v.glide_samples_left - 1000,
                   !.current_pitch = v.current_pitch + v.glide_step]
    ELSE v

\* CVVoice::next_pitch_sample: the voice after the call; the value returned is
\* its current_pitch
CVNextPitchSample(v) ==
    IF v.glide_samples_left > 0
    THEN LET left == v.glide_samples_left - 1000
         IN  [v EXCEPT !.glide_samples_left = left,
                       !.current_pitch = IF left <= 0 THEN v.target_pitch
                                         ELSE v.current_pitch + v.glide_step]
    ELSE v

\* CVVoice::next_gate_sample, in tenths
CVNextGateSample(v) == IF v.gate_high THEN GateTenths ELSE 0

\* CVVoice::current_note; NoNote is None
NoNote == 0 - 1
CVCurrentNote(v) ==
    IF v.note_stack = <<>> THEN NoNote ELSE v.note_stack[Len(v.note_stack)]

\* the voice after n calls of next_pitch_sample
RECURSIVE CVAfter(_, _)
CVAfter(v, n) == IF n = 0 THEN v ELSE CVAfter(CVNextPitchSample(v), n - 1)

\* the drums name crate::dsp::envelope::Envelope, a file the source tree does
\* not hold.  The envelope is taken as the design document describes it
\* (section 4.B: Idle, Attack, Decay, Sustain until note_off, Release; set_adsr
\* clamps the times to 1 ms), which is what audio/envelope.rs implements.
DrumEnvNew == EnvelopeNew
DrumEnvSetAdsr(e, a, d, s, r) == EnvSetAdsr(e, a, d, s, r)
DrumEnvNoteOn(e) == EnvNoteOn(e)
DrumEnvIsActive(e) == EnvIsActive(e)
DrumEnvNextSample(e) == EnvNextSample(e)

\* ============================================================== KickDrum
\* the kick's parameter block: pitch_start and pitch_end in Hz, pitch_decay and
\* decay in ms, click
KickParams == [pitch_start |-> 150, pitch_end |-> 40, pitch_decay |-> 1, decay |-> 2,
               click |-> 0]

\* the kick of a drum instance.  Its click parameter is 0 here, so the noise
\* transient (noise * click_env * click_amount) is 0 whatever the noise
\* generator returns, and the generator is left out.

\* KickDrum::update_from_parameters with the parameter block holding params
KickUpdateFrom(k, params) ==
    [k EXCEPT !.start_frequency = params.pitch_start,
              !.base_frequency = params.pitch_end,
              !.click_amount = params.click,
              !.pitch_envelope = DrumEnvSetAdsr(k.pitch_envelope, 0, params.pitch_decay, 0, 0),
              !.amp_envelope = DrumEnvSetAdsr(k.amp_envelope, MinTimeMs, params.decay, 0, 0),
              !.click_envelope = DrumEnvSetAdsr(k.click_envelope, 0, ClickDecayMs, 0, 0)]

\* KickDrum::update_from_parameters with the block fixed at KickParams
KickUpdateFromParameters(k) == KickUpdateFrom(k, KickParams)

\* KickDrum::new_with_parameters
KickNew ==
    KickUpdateFromParameters(
        [oscillator |-> OscSetWaveform(OscillatorNew, "Sine"),
         pitch_envelope |-> DrumEnvNew, amp_envelope |-> DrumEnvNew,
         click_envelope |-> DrumEnvNew,
         base_frequency |-> KickBaseFrequency, start_frequency |-> KickStartFrequency,
         click_amount |-> 0])

\* KickDrum::trigger with the parameter block holding params
KickTriggerWith(k, params) ==
    LET u == KickUpdateFrom(k, params)
    IN  [u EXCEPT !.oscillator = OscReset(u.oscillator),
                  !.pitch_envelope = DrumEnvNoteOn(u.pitch_envelope),
                  !.amp_envelope = DrumEnvNoteOn(u.amp_envelope),
                  !.click_envelope = DrumEnvNoteOn(u.click_envelope)]

\* KickDrum::trigger with the block fixed at KickParams
KickTrigger(k) == KickTriggerWith(k, KickParams)

\* KickDrum::is_active
KickIsActive(k) == DrumEnvIsActive(k.amp_envelope)

\* KickDrum::next_sample: the oscillator retuned to the swept frequency
KickSwept(k) ==
    LET pitch_env == DrumEnvNextSample(k.pitch_envelope).current_level
    IN  OscSetFrequency(k.oscillator,
            k.base_frequency + ((k.start_frequency - k.base_frequency) * pitch_env) \div One)

\* KickDrum::next_sample: the kick after the call
KickAdvance(k) ==
    [k EXCEPT !.oscillator = OscAdvance(KickSwept(k)),
              !.pitch_envelope = DrumEnvNextSample(k.pitch_envelope),
              !.click_envelope = DrumEnvNextSample(k.click_envelope),
              !.amp_envelope = DrumEnvNextSample(k.amp_envelope)]

\* KickDrum::next_sample: noise_sample * click_env * click_amount, which is 0
\* for the click_amount 0 of KickParams
KickClickTransient(k) == 0

\* KickDrum::next_sample: the value returned, (tone + click) through the VCA,
\* in 1/(10*One*One) units
KickOutput(k) ==
    (OscOutput(KickSwept(k)) + KickClickTransient(k))
        * DrumEnvNextSample(k.amp_envelope).current_level * GainTenths

\* the kick after n calls of next_sample
RECURSIVE KickAfter(_, _)
KickAfter(k, n) == IF n = 0 THEN k ELSE KickAfter(KickAdvance(k), n - 1)


\* ============================================================= SnareDrum
\* the snare's parameter block: tone_freq in Hz, decay in ms, tone_mix and
\* snap in tenths
SnareParams == [tone_freq |-> 200, tone_mix |-> 3, decay |-> 2, snap |-> 5]

\* the snare: two oscillators and three envelopes.  Its noise generators and
\* its noise filter shape the sample returned only; no envelope and no
\* is_active reads them, and they are left out.

\* SnareDrum::update_from_parameters
SnareUpdateFromParameters(s) ==
    [s EXCEPT !.tone_mix = SnareParams.tone_mix,
              !.snap_amount = SnareParams.snap,
              !.osc1 = OscSetFrequency(s.osc1, SnareParams.tone_freq),
              !.osc2 = OscSetFrequency(s.osc2, (SnareParams.tone_freq * 183) \div 100),
              !.tone_envelope = DrumEnvSetAdsr(s.tone_envelope, MinTimeMs,
                                               SnareParams.decay \div 2, 0, 0),
              !.noise_envelope = DrumEnvSetAdsr(s.noise_envelope, MinTimeMs,
                                                SnareParams.decay, 0, 0),
              !.snap_envelope = DrumEnvSetAdsr(s.snap_envelope, 0, SnapDecayMs, 0, 0)]

\* SnareDrum::new_with_parameters
SnareNew ==
    SnareUpdateFromParameters(
        [osc1 |-> OscSetWaveform(OscillatorNew, "Sine"),
         osc2 |-> OscSetWaveform(OscillatorNew, "Sine"),
         tone_envelope |-> DrumEnvNew, noise_envelope |-> DrumEnvNew,
         snap_envelope |-> DrumEnvNew, tone_mix |-> 0, snap_amount |-> 0])

\* SnareDrum::trigger
SnareTrigger(s) ==
    LET u == SnareUpdateFromParameters(s)
    IN  [u EXCEPT !.osc1 = OscReset(u.osc1),
                  !.osc2 = OscReset(u.osc2),
                  !.tone_envelope = DrumEnvNoteOn(u.tone_envelope),
                  !.noise_envelope = DrumEnvNoteOn(u.noise_envelope),
                  !.snap_envelope = DrumEnvNoteOn(u.snap_envelope)]

\* is_active reading the level instead of the state
SnareIsActiveByLevel(s) ==
    s.tone_envelope.current_level > 0 \/ s.noise_envelope.current_level > 0

\* SnareDrum::is_active
SnareIsActive(s) ==
    DrumEnvIsActive(s.tone_envelope) \/ DrumEnvIsActive(s.noise_envelope)

\* SnareDrum::next_sample: the snare after the call
SnareAdvance(s) ==
    [s EXCEPT !.osc1 = OscAdvance(s.osc1),
              !.osc2 = OscAdvance(s.osc2),
              !.tone_envelope = DrumEnvNextSample(s.tone_envelope),
              !.noise_envelope = DrumEnvNextSample(s.noise_envelope),
              !.snap_envelope = DrumEnvNextSample(s.snap_envelope)]

\* ================================================================= HiHat
\* the hat's parameter block: decay in ms
HatParams == [decay |-> 1]

\* the hat: one envelope gating filtered noise; the noise generator and the
\* band-pass filter shape the sample returned only and are left out.

\* HiHat::update_from_parameters
HatUpdateFromParameters(h) ==
    [h EXCEPT !.envelope = DrumEnvSetAdsr(h.envelope, MinTimeMs, HatParams.decay, 0, 0)]

\* HiHat::new_with_parameters
HatNew == HatUpdateFromParameters([envelope |-> DrumEnvNew])

\* HiHat::trigger
HatTrigger(h) ==
    LET u == HatUpdateFromParameters(h)
    IN  [u EXCEPT !.envelope = DrumEnvNoteOn(u.envelope)]

\* HiHat::is_active
HatIsActive(h) == DrumEnvIsActive(h.envelope)

\* HiHat::next_sample: the hat after the call
HatAdvance(h) == [h EXCEPT !.envelope = DrumEnvNextSample(h.envelope)]

\* ============================================================= DrumVoice
DrumTypes == {"Kick", "Snare", "Hat"}

\* DrumVoice::new_with_parameters
DrumVoiceNew(kind) ==
    CASE kind = "Kick" -> [kind |-> "Kick", drum |-> KickNew]
      [] kind = "Snare" -> [kind |-> "Snare", drum |-> SnareNew]
      [] kind = "Hat" -> [kind |-> "Hat", drum |-> HatNew]

\* DrumVoice::trigger
DrumVoiceTrigger(d) ==
    CASE d.kind = "Kick" -> [d EXCEPT !.drum = KickTrigger(d.drum)]
      [] d.kind = "Snare" -> [d EXCEPT !.drum = SnareTrigger(d.drum)]
      [] d.kind = "Hat" -> [d EXCEPT !.drum = HatTrigger(d.drum)]

\* DrumVoice::is_active
DrumVoiceIsActive(d) ==
    CASE d.kind = "Kick" -> KickIsActive(d.drum)
      [] d.kind = "Snare" -> SnareIsActive(d.drum)
      [] d.kind = "Hat" -> HatIsActive(d.drum)

\* DrumVoice::next_sample: the voice after the call
DrumVoiceAdvance(d) ==
    CASE d.kind = "Kick" -> [d EXCEPT !.drum = KickAdvance(d.drum)]
      [] d.kind = "Snare" -> [d EXCEPT !.drum = SnareAdvance(d.drum)]
      [] d.kind = "Hat" -> [d EXCEPT !.drum = HatAdvance(d.drum)]

\* the component envelopes of a drum voice
DrumEnvelopes(d) ==
    CASE d.kind = "Kick" -> {d.drum.pitch_envelope, d.drum.amp_envelope, d.drum.click_envelope}
      [] d.kind = "Snare" -> {d.drum.tone_envelope, d.drum.noise_envelope, d.drum.snap_envelope}
      [] d.kind = "Hat" -> {d.drum.envelope}

\* =============================================================== engines
\* the synth parameter block: attack, decay (ms), sustain, release (ms), and
\* the waveform (as u8: Sawtooth)
SynthParams ==
    [attack |-> 0, decay |-> 1, sustain |-> One \div 2, release |-> 1, waveform |-> 2]
\* the lengths (frames) of the buffers a callback is given
FrameCounts == {1, 2}

\* the parameter blocks the engines read, as the configuration wrote them
CVParams == [glide |-> 2, transpose |-> 0]

\* SynthEngine::new_with_channel
SynthEngineNew(midi_channel_filter) ==
    [type |-> "Synth", voice_pool |-> VoicePoolNew(PoolSize),
     midi_channel_filter |-> midi_channel_filter]

\* DrumEngine::new_with_parameters
DrumEngineNew(trigger_note, midi_channel_filter) ==
    [type |-> "Drum", voice |-> KickNew, trigger_note |-> trigger_note,
     midi_channel_filter |-> midi_channel_filter]

\* CVEngine::new
CVEngineNew(midi_channel_filter) ==
    [type |-> "CV", voice |-> CVSetGlideTime(CVVoiceNew, CVParams.glide),
     midi_channel_filter |-> midi_channel_filter]

\* should_process_event with the AllNotesOff { channel: None } arm refusing
SynthShouldProcessStrict(e, event) ==
    IF e.midi_channel_filter = Omni THEN TRUE
    ELSE IF EventChannel(event) # NoChannel
         THEN EventChannel(event) = e.midi_channel_filter
         ELSE FALSE

\* SynthEngine::should_process_event
SynthShouldProcessEvent(e, event) ==
    IF e.midi_channel_filter = Omni THEN TRUE
    ELSE IF EventChannel(event) # NoChannel
         THEN EventChannel(event) = e.midi_channel_filter
         ELSE TRUE

\* DrumEngine::should_process_event
DrumShouldProcessEvent(e, event) ==
    IF e.midi_channel_filter = Omni THEN TRUE
    ELSE IF EventChannel(event) # NoChannel
         THEN EventChannel(event) = e.midi_channel_filter
         ELSE TRUE

\* CVEngine::should_process_event
CVShouldProcessEvent(e, event) ==
    IF e.midi_channel_filter = Omni THEN TRUE
    ELSE IF EventChannel(event) # NoChannel
         THEN EventChannel(event) = e.midi_channel_filter
         ELSE TRUE

\* the match of SynthEngine::process
SynthMatch(e, event) ==
    CASE event.type = "NoteOn" ->
            [e EXCEPT !.voice_pool = PoolNoteOn(e.voice_pool, event.note, event.frequency)]
      [] event.type = "NoteOff" ->
            [e EXCEPT !.voice_pool = PoolNoteOff(e.voice_pool, event.note)]
      [] event.type = "AllNotesOff" ->
            [e EXCEPT !.voice_pool = PoolAllNotesOff(e.voice_pool)]

\* a match that triggers on every NoteOn, whatever its note
DrumMatchAnyNote(e, event) ==
    IF event.type = "NoteOn" THEN [e EXCEPT !.voice = KickTrigger(e.voice)] ELSE e

\* the match of DrumEngine::process
DrumMatch(e, event) ==
    IF event.type = "NoteOn" /\ event.note = e.trigger_note
    THEN [e EXCEPT !.voice = KickTrigger(e.voice)]
    ELSE e

\* the match of CVEngine::process_dual_channel
CVMatch(e, event) ==
    CASE event.type = "NoteOn" -> [e EXCEPT !.voice = CVNoteOn(e.voice, event.note)]
      [] event.type = "NoteOff" -> [e EXCEPT !.voice = CVNoteOff(e.voice, event.note)]
      [] event.type = "AllNotesOff" -> [e EXCEPT !.voice = CVAllNotesOff(e.voice)]

\* should_process_event of the engine's type
ShouldProcessEvent(e, event) ==
    CASE e.type = "Synth" -> SynthShouldProcessEvent(e, event)
      [] e.type = "Drum" -> DrumShouldProcessEvent(e, event)
      [] e.type = "CV" -> CVShouldProcessEvent(e, event)

\* the while-let loop of an engine's process over the events q of its
\* channel: each event is received, filtered and, if it passes, matched
RECURSIVE HandleEvents(_, _)
HandleEvents(e, q) ==
    IF q = <<>> THEN e
    ELSE LET event == Head(q)
             next == IF ~ShouldProcessEvent(e, event) THEN e
                     ELSE CASE e.type = "Synth" -> SynthMatch(e, event)
                            [] e.type = "Drum" -> DrumMatch(e, event)
                            [] e.type = "CV" -> CVMatch(e, event)
         IN  HandleEvents(next, Tail(q))

\* the events of q that reach the match
Matched(e, q) == SelectSeq(q, LAMBDA event : ShouldProcessEvent(e, event))

\* what an engine writes is expressed in one unit for every engine,
\* 1/(120 * One * One * PitchSub): a pool sample (1/4 of 1/(10*One*One)) is
\* scaled by 3 * PitchSub, a drum sample by 12 * PitchSub, a pitch by One * One,
\* a gate (tenths) by 12 * One * One * PitchSub
Silence(frames) == [f \in 1..frames |-> 0]

\* SynthEngine::process on the events q: the engine after it and the buffer
SynthEngineProcess(e, q, frames) ==
    LET handled == HandleEvents(e, q)
        latched == PoolSetWaveform(
                       PoolSetAdsr(handled.voice_pool, SynthParams.attack, SynthParams.decay,
                                   SynthParams.sustain, SynthParams.release),
                       WaveformFromU8(SynthParams.waveform))
        samples == PoolOutput(latched, frames)
    IN  [engine |-> [handled EXCEPT !.voice_pool = PoolProcess(latched, frames)],
         pitch |-> [f \in 1..frames |-> samples[f] * 3 * PitchSub],
         gate |-> Silence(frames)]

\* DrumEngine::process on the events q
DrumEngineProcess(e, q, frames) ==
    LET handled == HandleEvents(e, q)
    IN  IF KickIsActive(handled.voice)
        THEN [engine |-> [handled EXCEPT !.voice = KickAfter(handled.voice, frames)],
              pitch |-> [f \in 1..frames |->
                            KickOutput(KickAfter(handled.voice, f - 1)) * 12 * PitchSub],
              gate |-> Silence(frames)]
        ELSE [engine |-> handled, pitch |-> Silence(frames), gate |-> Silence(frames)]

\* CVEngine::process_dual_channel on the events q
CVEngineProcess(e, q, frames) ==
    LET handled == HandleEvents(e, q)
        voice == CVSetTranspose(CVSetGlideTime(handled.voice, CVParams.glide),
                                CVParams.transpose)
    IN  [engine |-> [handled EXCEPT !.voice = CVAfter(voice, frames)],
         pitch |-> [f \in 1..frames |-> CVAfter(voice, f).current_pitch * One * One],
         gate |-> [f \in 1..frames |->
                      CVNextGateSample(voice) * 12 * One * One * PitchSub]]

\* EngineType::process / process_dual_channel
EngineProcess(e, q, frames) ==
    CASE e.type = "Synth" -> SynthEngineProcess(e, q, frames)
      [] e.type = "Drum" -> DrumEngineProcess(e, q, frames)
      [] e.type = "CV" -> CVEngineProcess(e, q, frames)

\* ====================================================== MultiEngineSynth
\* an engine that receives only when its audio channel is one of the device's
EventsLeftInRange(instance, q) ==
    IF instance.audio_channel < NumChannels THEN <<>> ELSE q

\* the channel of an instance after its engine's process: the while-let loop
\* receives until try_recv finds the channel empty
RECURSIVE EventsLeft(_, _)
EventsLeft(instance, q) ==
    IF q = <<>> THEN q ELSE EventsLeft(instance, Tail(q))

\* the events the loop received
EventsReceived(instance, q) ==
    SubSeq(q, 1, Len(q) - Len(EventsLeft(instance, q)))

\* try_send on a channel bounded to one event: a full channel refuses
TrySendBounded(q, event) == IF Len(q) >= 1 THEN q ELSE Append(q, event)

\* crossbeam_channel::Sender::try_send on an unbounded channel
TrySend(q, event) == Append(q, event)

\* the instances of the configuration: a synth and a kick sharing output
\* channel 0, a CV instance on channels 2 and 3, a kick whose channel is past
\* the device's NumChannels channels; channel 1 has no instance
InstanceSpecs(filters) ==
    <<[engine |-> SynthEngineNew(filters[1]), audio_channel |-> 0,
       uses_dual_channel |-> FALSE],
      [engine |-> DrumEngineNew(FirstNote, filters[2]), audio_channel |-> 0,
       uses_dual_channel |-> FALSE],
      [engine |-> CVEngineNew(filters[3]), audio_channel |-> 2,
       uses_dual_channel |-> TRUE],
      [engine |-> DrumEngineNew(FirstNote + 2, filters[4]), audio_channel |-> NumChannels,
       uses_dual_channel |-> FALSE]>>

\* the gate mixed to the pitch channel
GateChannelSame(instance) == instance.audio_channel

\* the channel of a CV instance's gate: let gate_ch = instance.audio_channel + 1
GateChannel(instance) == instance.audio_channel + 1

\* output[frame_idx * num_channels + ch] += buffer[frame_idx] for every frame,
\* if ch < num_channels
MixInto(out, ch, buffer) ==
    IF ch < NumChannels
    THEN [f \in DOMAIN out |-> [out[f] EXCEPT ![ch] = out[f][ch] + buffer[f]]]
    ELSE out

\* the body of the loop over the instances: the buffers of one instance mixed
\* into the output
MixInstance(out, instance, buffers) ==
    IF instance.uses_dual_channel
    THEN MixInto(MixInto(out, instance.audio_channel, buffers.pitch),
                 GateChannel(instance), buffers.gate)
    ELSE MixInto(out, instance.audio_channel, buffers.pitch)

\* the loop over the instances from instance i on
RECURSIVE MixFrom(_, _, _, _)
MixFrom(out, i, insts, buffers) ==
    IF i > Len(insts) THEN out
    ELSE MixFrom(MixInstance(out, insts[i], buffers[i]), i + 1, insts, buffers)

\* output.fill(0.0)
ClearedOutput(frames) == [f \in 1..frames |-> [k \in 0..(NumChannels - 1) |-> 0]]

\* every instance in omni mode
AllOmni == <<Omni, Omni, Omni, Omni>>

NoEvent == [type |-> "None", channel |-> NoChannel, note |-> 0, frequency |-> 0]

InitMixVars(filters) ==
    /\ main_q = <<>>
    /\ instances = InstanceSpecs(filters)
    /\ inst_q = [i \in 1..Len(InstanceSpecs(filters)) |-> <<>>]
    /\ pc = [at |-> "idle", frames |-> 0, event |-> NoEvent, next |-> 0]
    /\ output = ClearedOutput(0)
    /\ rendered = [i \in 1..Len(InstanceSpecs(filters)) |->
                      [pitch |-> Silence(0), gate |-> Silence(0)]]
    /\ sent = <<>>
    /\ delivered = [i \in 1..Len(InstanceSpecs(filters)) |-> <<>>]
    /\ applied = [i \in 1..Len(InstanceSpecs(filters)) |-> <<>>]
    /\ callbacks = 0

\* ---------------------------------------------- the envelope, driven alone
TimesMs == {0, 1, MaxTimeMs}
SustainLevels == {0 - One, One \div 2, 2 * One}

InitEnvVars ==
    /\ env = EnvelopeNew
    /\ op = "new"
    /\ since_on = -1
    /\ since_off = -1

InitNoiseVars ==
    /\ noise1 = NoiseNew
    /\ noise2 = NoiseNew
    /\ samples1 = <<>>
    /\ samples2 = <<>>

InitRunVars ==
    /\ run_file = [readable |-> FALSE, well_formed |-> FALSE,
                   config |-> [poly16s |-> <<>>, drums |-> <<>>]]
    /\ run_pc = "start"
    /\ run_result = NoResult
    /\ midi_connected = FALSE
    /\ stream_started = FALSE

InitLatchVars ==
    /\ lat_engines = <<>>
    /\ lat_queue = <<>>
    /\ lat_pc = [kind |-> "None", at |-> "idle"]
    /\ lat_dirty = {}
    /\ lat_calls = 0

InitReverbVars ==
    /\ reverb = <<>>
    /\ rv_samples = 0
    /\ rv_panicked = FALSE

\* no pool under observation
InitStealVars == displaced = <<>>

\* no pool under observation
InitLifeVars == note_life = <<>>

InitOscVars ==
    /\ osc = OscillatorNew
    /\ osc_op = "new"
    /\ osc_calls = 0

\* no editor: the specifications without one leave these empty
InitUiVars ==
    /\ ui_config = <<>>
    /\ ui_params = <<>>
    /\ ui_op = [name |-> "new", kind |-> "Synth", field |-> "attack"]
    /\ edits = 0

InitStreamVars ==
    /\ temp_buffer = TempFrames * NumChannels
    /\ data_len = 0
    /\ allocs = 0
    /\ seen = 0
    /\ panicked = FALSE
    /\ drained = 0
    /\ pending = 0
    /\ frame_counter = 0

InitMidiVars ==
    /\ midi_in = <<>>
    /\ midi_message = UnknownMessage
    /\ midi_event = NoSynthEvent
    /\ midi_channel = Omni

InitDrumVars ==
    /\ drum = DrumVoiceNew("Kick")
    /\ drum_calls = -1

InitCVVars ==
    /\ cv = CVVoiceNew
    /\ cv_op = [name |-> "new", note |-> -1, was_high |-> FALSE]
    /\ held = <<>>
    /\ glide_from = 0
    /\ glide_calls = -1

InitPoolVars(n) ==
    /\ pool = VoicePoolNew(n)
    /\ pool_op = [name |-> "new", note |-> -1, offered |-> "none"]
    /\ off_seen = FALSE
    /\ went_idle = [i \in 0..(n - 1) |-> FALSE]

InitEnv == InitEnvVars /\ InitLifeVars /\ InitStealVars /\ InitReverbVars /\ InitLatchVars /\ InitRunVars /\ InitNoiseVars /\ InitOscVars /\ InitUiVars /\ InitStreamVars /\ InitMidiVars /\ InitDrumVars /\ InitCVVars /\ InitPoolVars(PoolSize) /\ InitMixVars(AllOmni)

DoSetAdsr ==
    \E a \in TimesMs, d \in TimesMs, s \in SustainLevels, r \in TimesMs :
        /\ env' = EnvSetAdsr(env, a, d, s, r)
        /\ op' = "set_adsr"
        /\ since_on' = IF env' = env THEN since_on ELSE -1
        /\ since_off' = IF env' = env THEN since_off ELSE -1
        /\ UNCHANGED <<poolVars, mixVars, cvVars, drumVars, midiVars, streamVars, uiVars, oscVars, noiseVars, runVars, latchVars, reverbVars, stealVars, lifeVars>>

DoNoteOn ==
    /\ env' = EnvNoteOn(env)
    /\ op' = "note_on"
    /\ since_on' = 0
    /\ since_off' = -1
    /\ UNCHANGED <<poolVars, mixVars, cvVars, drumVars, midiVars, streamVars, uiVars, oscVars, noiseVars, runVars, latchVars, reverbVars, stealVars, lifeVars>>

DoNoteOff ==
    /\ env' = EnvNoteOff(env)
    /\ op' = "note_off"
    /\ since_on' = -1
    /\ since_off' = 0
    /\ UNCHANGED <<poolVars, mixVars, cvVars, drumVars, midiVars, streamVars, uiVars, oscVars, noiseVars, runVars, latchVars, reverbVars, stealVars, lifeVars>>

DoNextSample ==
    /\ env.sample_count < MaxSamples
    /\ env' = EnvNextSample(env)
    /\ op' = "next_sample"
    /\ since_on' = IF since_on >= 0 THEN since_on + 1 ELSE -1
    /\ since_off' = IF since_off >= 0 THEN since_off + 1 ELSE -1
    /\ UNCHANGED <<poolVars, mixVars, cvVars, drumVars, midiVars, streamVars, uiVars, oscVars, noiseVars, runVars, latchVars, reverbVars, stealVars, lifeVars>>

NextEnv == DoSetAdsr \/ DoNoteOn \/ DoNoteOff \/ DoNextSample

SpecEnv == InitEnv /\ [][NextEnv]_vars

\* ------------------------------------------------- the pool, driven alone
\* the notes and the frequency (Hz) of the NoteOn events
Notes == {60, 61}
Frequencies == {250}

\* no note was taken from the slot
NoNoteHeld == 0 - 1

\* a note begins on a slot whose envelope is at `level`
NewLife(level) == [from_level |-> level, rendered |-> 0, heard |-> FALSE]

\* the record of a slot after a block of `frames` samples rendered from the
\* pool p: samples rendered while the envelope was not yet released are
\* counted (none, one, two or more), a sample whose envelope level is above 0
\* is heard
LifeAfter(life, p, i, frames) ==
    LET u == UpdateVoiceStates(p)
        state == u.voices[i].voice.envelope.state
    IN  [life EXCEPT
            !.rendered = IF ~IsIdle(u.voices[i]) /\ state \notin {"Release", "Idle"}
                         THEN Min(2, life.rendered + frames)
                         ELSE life.rendered,
            !.heard = \/ life.heard
                      \/ \E f \in 1..frames :
                            PoolProcess(p, f).voices[i].voice.envelope.current_level > 0]

InitPool == InitEnvVars /\ InitReverbVars /\ InitLatchVars /\ InitRunVars /\ InitNoiseVars /\ InitOscVars /\ InitUiVars /\ InitStreamVars /\ InitMidiVars /\ InitDrumVars /\ InitCVVars /\ InitPoolVars(PoolSize) /\ InitMixVars(AllOmni) /\ InitLifeVars
    /\ displaced = [i \in 0..(PoolSize - 1) |-> NoNoteHeld]

\* the sample counter of the envelope that has counted most
MaxSampleCount(p) ==
    LET counts == {p.voices[i].voice.envelope.sample_count : i \in DOMAIN p.voices}
    IN  CHOOSE c \in counts : \A d \in counts : d <= c

\* what a pool offers a new note
Offered(p) ==
    IF \E i \in DOMAIN p.voices : p.voices[i].state = "Idle" THEN "idle"
    ELSE IF \E i \in DOMAIN p.voices : p.voices[i].voice.envelope.state = "Idle" THEN "quiet"
    ELSE "busy"

\* pool.note_on(note, frequency)
PNoteOnOf(note, frequency) ==
    /\ pool.global_age < MaxNoteOns
    /\ pool' = PoolNoteOn(pool, note, frequency)
    /\ pool_op' = [name |-> "note_on", note |-> note, offered |-> Offered(pool)]
    /\ went_idle' = [went_idle EXCEPT ![FindVoiceForNote(pool)] = FALSE]
    /\ displaced' = [displaced EXCEPT ![FindVoiceForNote(pool)] =
                         IF IsActive(pool.voices[FindVoiceForNote(pool)])
                         THEN pool.voices[FindVoiceForNote(pool)].note
                         ELSE NoNoteHeld]
    /\ note_life' = [i \in DOMAIN note_life |->
          IF i = FindVoiceForNote(pool)
          THEN NewLife(pool.voices[i].voice.envelope.current_level)
          ELSE note_life[i]]
    /\ UNCHANGED <<off_seen, envVars, mixVars, cvVars, drumVars, midiVars, streamVars, uiVars, oscVars, noiseVars, runVars, latchVars, reverbVars>>

PNoteOn == \E note \in Notes, frequency \in Frequencies : PNoteOnOf(note, frequency)

\* pool.note_off(note)
PNoteOffOf(note) ==
    /\ pool' = PoolNoteOff(pool, note)
    /\ pool_op' = [name |-> "note_off", note |-> note, offered |-> "none"]
    /\ off_seen' = TRUE
    /\ UNCHANGED <<went_idle, envVars, mixVars, cvVars, drumVars, midiVars, streamVars, uiVars, oscVars, noiseVars, runVars, latchVars, reverbVars, stealVars, lifeVars>>

PNoteOff == \E note \in Notes : PNoteOffOf(note)

\* pool.all_notes_off()
PAllNotesOff ==
    /\ pool' = PoolAllNotesOff(pool)
    /\ pool_op' = [name |-> "all_notes_off", note |-> -1, offered |-> "none"]
    /\ off_seen' = TRUE
    /\ UNCHANGED <<went_idle, envVars, mixVars, cvVars, drumVars, midiVars, streamVars, uiVars, oscVars, noiseVars, runVars, latchVars, reverbVars, stealVars, lifeVars>>

\* what SynthEngine::process does after its event loop: set_adsr and
\* set_waveform with the values of the parameter block, then
\* pool.process(output), output.len() = frames
RenderBlock(frames) ==
    LET latched == PoolSetWaveform(
                       PoolSetAdsr(pool, SynthParams.attack, SynthParams.decay,
                                   SynthParams.sustain, SynthParams.release),
                       WaveformFromU8(SynthParams.waveform))
    IN  /\ pool' = PoolProcess(latched, frames)
        /\ pool_op' = [name |-> "process", note |-> -1, offered |-> "none"]
        /\ went_idle' = [i \in DOMAIN pool.voices |->
              /\ IsActive(pool'.voices[i])
              /\ \/ went_idle[i]
                 \/ /\ VoiceIsActive(UpdateVoiceStates(latched).voices[i].voice)
                    /\ ~VoiceIsActive(pool'.voices[i].voice)]
        /\ note_life' = [i \in DOMAIN note_life |-> LifeAfter(note_life[i], latched, i, frames)]
        /\ UNCHANGED <<off_seen, envVars, mixVars, cvVars, drumVars, midiVars, streamVars, uiVars, oscVars, noiseVars, runVars, latchVars, reverbVars, stealVars>>

PProcess ==
    \E frames \in FrameCounts :
        /\ MaxSampleCount(pool) + frames <= MaxPoolSamples
        /\ RenderBlock(frames)

NextPool == PNoteOn \/ PNoteOff \/ PAllNotesOff \/ PProcess

SpecPool == InitPool /\ [][NextPool]_vars

\* ------------------------------------------- the life of a note in the pool
\* NoteOn and NoteOff events for one key are handled by the engine's event
\* loop between the blocks it renders; the record of every slot's note is kept
InitLife ==
    /\ InitEnvVars /\ InitReverbVars /\ InitLatchVars /\ InitRunVars /\ InitNoiseVars
    /\ InitOscVars /\ InitUiVars /\ InitStreamVars /\ InitMidiVars /\ InitDrumVars
    /\ InitCVVars /\ InitPoolVars(PoolSize) /\ InitMixVars(AllOmni)
    /\ displaced = [i \in 0..(PoolSize - 1) |-> NoNoteHeld]
    /\ note_life = [i \in 0..(PoolSize - 1) |-> NewLife(0)]

\* SynthEvent::NoteOn matched by the event loop
LifeNoteOn == \E frequency \in Frequencies : PNoteOnOf(FirstNote, frequency)

\* SynthEvent::NoteOff matched by the event loop
LifeNoteOff == PNoteOffOf(FirstNote)

NextLife == LifeNoteOn \/ LifeNoteOff \/ PProcess

SpecLife == InitLife /\ [][NextLife]_vars

\* ---------------------------------- the full pool, filled note after note
\* test_max_voices and the polyphony scenario: NoteOn for 60, 61, 62, ...
\* on a pool of MAX_VOICES slots, rendering in between

InitPoly16 == InitEnvVars /\ InitLifeVars /\ InitStealVars /\ InitReverbVars /\ InitLatchVars /\ InitRunVars /\ InitNoiseVars /\ InitOscVars /\ InitUiVars /\ InitStreamVars /\ InitMidiVars /\ InitDrumVars /\ InitCVVars /\ InitPoolVars(MAX_VOICES) /\ InitMixVars(AllOmni)

\* pool.note_on(60 + i, 440.0)
FillNoteOn ==
    /\ pool.global_age < MAX_VOICES + 2
    /\ pool' = PoolNoteOn(pool, FirstNote + pool.global_age, DefaultFrequency)
    /\ pool_op' = [name |-> "note_on", note |-> FirstNote + pool.global_age,
                   offered |-> Offered(pool)]
    /\ went_idle' = [went_idle EXCEPT ![FindVoiceForNote(pool)] = FALSE]
    /\ UNCHANGED <<off_seen, envVars, mixVars, cvVars, drumVars, midiVars, streamVars, uiVars, oscVars, noiseVars, runVars, latchVars, reverbVars, stealVars, lifeVars>>

\* pool.note_off(60): the key of the first note is released, once
FillNoteOff ==
    /\ ~off_seen
    /\ \E i \in DOMAIN pool.voices : pool.voices[i].note = FirstNote
    /\ pool' = PoolNoteOff(pool, FirstNote)
    /\ pool_op' = [name |-> "note_off", note |-> FirstNote, offered |-> "none"]
    /\ off_seen' = TRUE
    /\ UNCHANGED <<went_idle, envVars, mixVars, cvVars, drumVars, midiVars, streamVars, uiVars, oscVars, noiseVars, runVars, latchVars, reverbVars, stealVars, lifeVars>>

\* one block of one frame
FillProcess ==
    /\ MaxSampleCount(pool) < MaxFillSamples
    /\ RenderBlock(1)

NextPoly16 == FillNoteOn \/ FillNoteOff \/ FillProcess

SpecPoly16 == InitPoly16 /\ [][NextPoly16]_vars

\* ------------------------------------------- the mixer and the MIDI thread
\* the MIDI callback thread sends events to the main channel while the audio
\* thread runs MultiEngineSynth::process, one step of it at a time

MidiChannels == {0, 1}
MixNotes == {FirstNote, FirstNote + 2}
Events ==
    {NoteOnEvent(c, n, MidiNoteToFrequency(n)) : c \in MidiChannels, n \in MixNotes}
        \cup {NoteOffEvent(c, FirstNote) : c \in MidiChannels}
        \cup {AllNotesOffEvent(0), AllNotesOffEvent(NoChannel)}

\* the MIDI channel filters of the four instances, from the configuration
FilterConfigs == {<<0, 1, Omni, Omni>>, <<1, Omni, 0, 0>>, <<Omni, 0, 1, 1>>}

InitMix ==
    /\ InitEnvVars /\ InitLifeVars /\ InitStealVars /\ InitReverbVars /\ InitLatchVars /\ InitRunVars /\ InitNoiseVars /\ InitOscVars /\ InitUiVars /\ InitStreamVars /\ InitMidiVars
    /\ InitDrumVars
    /\ InitCVVars
    /\ InitPoolVars(PoolSize)
    /\ \E filters \in FilterConfigs : InitMixVars(filters)

\* the closure given to midi_in.connect: the message becomes an event (no
\* channel filter here: the handler's parameter block says omni) and is sent
MidiCallback ==
    \E event \in Events :
        /\ Len(sent) < MaxEvents
        /\ main_q' = TrySend(main_q, event)
        /\ sent' = Append(sent, event)
        /\ UNCHANGED <<inst_q, instances, pc, output, rendered, delivered, applied,
                       callbacks, envVars, poolVars, cvVars, drumVars, midiVars, streamVars, uiVars, oscVars, noiseVars, runVars, latchVars, reverbVars, stealVars, lifeVars>>

\* MultiEngineSynth::process begins: frames, output.fill(0.0)
ProcessBegin ==
    \E frames \in FrameCounts :
        /\ pc.at = "idle"
        /\ callbacks < MaxCallbacks
        /\ output' = ClearedOutput(frames)
        /\ pc' = [at |-> "recv", frames |-> frames, event |-> NoEvent, next |-> 0]
        /\ UNCHANGED <<main_q, inst_q, instances, rendered, sent, delivered, applied,
                       callbacks, envVars, poolVars, cvVars, drumVars, midiVars, streamVars, uiVars, oscVars, noiseVars, runVars, latchVars, reverbVars, stealVars, lifeVars>>

\* while let Ok(event) = self.main_event_rx.try_recv()
BroadcastRecv ==
    /\ pc.at = "recv"
    /\ main_q # <<>>
    /\ main_q' = Tail(main_q)
    /\ pc' = [pc EXCEPT !.at = "send", !.event = Head(main_q), !.next = 1]
    /\ UNCHANGED <<inst_q, instances, output, rendered, sent, delivered, applied,
                   callbacks, envVars, poolVars, cvVars, drumVars, midiVars, streamVars, uiVars, oscVars, noiseVars, runVars, latchVars, reverbVars, stealVars, lifeVars>>

\* for event_tx in &self.instance_event_txs: one try_send
BroadcastSend ==
    /\ pc.at = "send"
    /\ inst_q' = [inst_q EXCEPT ![pc.next] = TrySend(inst_q[pc.next], pc.event)]
    /\ pc' = IF pc.next = Len(instances)
             THEN [pc EXCEPT !.at = "recv", !.event = NoEvent, !.next = 0]
             ELSE [pc EXCEPT !.next = pc.next + 1]
    /\ UNCHANGED <<main_q, instances, output, rendered, sent, delivered, applied,
                   callbacks, envVars, poolVars, cvVars, drumVars, midiVars, streamVars, uiVars, oscVars, noiseVars, runVars, latchVars, reverbVars, stealVars, lifeVars>>

\* the loop over the instances: every instance, in order, drains its own
\* channel, renders and is mixed into the output
RunInstances ==
    /\ LET results == [i \in DOMAIN instances |->
                          EngineProcess(instances[i].engine, inst_q[i], pc.frames)]
           buffers == [i \in DOMAIN instances |->
                          [pitch |-> results[i].pitch, gate |-> results[i].gate]]
       IN  /\ instances' = [i \in DOMAIN instances |->
                               [instances[i] EXCEPT !.engine = results[i].engine]]
           /\ rendered' = buffers
           /\ output' = MixFrom(output, 1, instances, buffers)
    /\ delivered' = [i \in DOMAIN instances |->
                        delivered[i] \o EventsReceived(instances[i], inst_q[i])]
    /\ applied' = [i \in DOMAIN instances |->
                      applied[i] \o Matched(instances[i].engine, inst_q[i])]
    /\ inst_q' = [i \in DOMAIN instances |-> EventsLeft(instances[i], inst_q[i])]
    /\ pc' = [pc EXCEPT !.at = "idle"]

\* try_recv found the main channel empty: the instances are processed and
\* the callback returns
ProcessInstances ==
    /\ pc.at = "recv"
    /\ main_q = <<>>
    /\ RunInstances
    /\ callbacks' = callbacks + 1
    /\ UNCHANGED <<main_q, sent, envVars, poolVars, cvVars, drumVars, midiVars, streamVars, uiVars, oscVars, noiseVars, runVars, latchVars, reverbVars, stealVars, lifeVars>>

NextMix ==
    MidiCallback \/ ProcessBegin \/ BroadcastRecv \/ BroadcastSend \/ ProcessInstances

SpecMix == InitMix /\ [][NextMix]_vars

\* ------------------------------------------------ the panic, several synths
\* three synth instances (filter 0, filter 1, omni), each on its own output
\* channel; the MIDI thread sends NoteOn events and then one AllNotesOff for
\* all channels, and the audio callbacks go on
PanicInstances ==
    <<[engine |-> SynthEngineNew(0), audio_channel |-> 0, uses_dual_channel |-> FALSE],
      [engine |-> SynthEngineNew(1), audio_channel |-> 1, uses_dual_channel |-> FALSE],
      [engine |-> SynthEngineNew(Omni), audio_channel |-> 2, uses_dual_channel |-> FALSE]>>

\* the device asks for blocks of two frames
PanicFrameCounts == {2}

InitPanic ==
    /\ InitEnvVars /\ InitLifeVars /\ InitStealVars /\ InitReverbVars /\ InitLatchVars /\ InitRunVars /\ InitNoiseVars /\ InitOscVars /\ InitUiVars /\ InitStreamVars /\ InitMidiVars
    /\ InitDrumVars
    /\ InitCVVars
    /\ InitPoolVars(PoolSize)
    /\ main_q = <<>>
    /\ instances = PanicInstances
    /\ inst_q = [i \in DOMAIN PanicInstances |-> <<>>]
    /\ pc = [at |-> "idle", frames |-> 0, event |-> NoEvent, next |-> 0]
    /\ output = ClearedOutput(0)
    /\ rendered = [i \in DOMAIN PanicInstances |-> [pitch |-> Silence(0), gate |-> Silence(0)]]
    /\ sent = <<>>
    /\ delivered = [i \in DOMAIN PanicInstances |-> <<>>]
    /\ applied = [i \in DOMAIN PanicInstances |-> <<>>]
    /\ callbacks = 0

\* the AllNotesOff for all channels has been sent
Panicked == \E k \in DOMAIN sent : sent[k] = AllNotesOffEvent(NoChannel)

\* the MIDI callback on a Note On message
PanicNoteOn ==
    \E c \in MidiChannels, n \in MixNotes :
        /\ ~Panicked
        /\ Len(sent) < MaxEvents
        /\ main_q' = TrySend(main_q, NoteOnEvent(c, n, MidiNoteToFrequency(n)))
        /\ sent' = Append(sent, NoteOnEvent(c, n, MidiNoteToFrequency(n)))
        /\ UNCHANGED <<inst_q, instances, pc, output, rendered, delivered, applied,
                       callbacks, envVars, poolVars, cvVars, drumVars, midiVars, streamVars, uiVars, oscVars, noiseVars, runVars, latchVars, reverbVars, stealVars, lifeVars>>

\* the AllNotesOff for all channels is sent, once, and no event after it
PanicAllNotesOff ==
    /\ ~Panicked
    /\ main_q' = TrySend(main_q, AllNotesOffEvent(NoChannel))
    /\ sent' = Append(sent, AllNotesOffEvent(NoChannel))
    /\ UNCHANGED <<inst_q, instances, pc, output, rendered, delivered, applied,
                   callbacks, envVars, poolVars, cvVars, drumVars, midiVars, streamVars, uiVars, oscVars, noiseVars, runVars, latchVars, reverbVars, stealVars, lifeVars>>

\* MultiEngineSynth::process begins; callbacks are counted up to MaxCallbacks
\* while notes may be held and are not limited after the panic
PanicBegin ==
    \E frames \in PanicFrameCounts :
        /\ pc.at = "idle"
        /\ (Panicked \/ callbacks < MaxCallbacks)
        /\ output' = ClearedOutput(frames)
        /\ pc' = [at |-> "recv", frames |-> frames, event |-> NoEvent, next |-> 0]
        /\ UNCHANGED <<main_q, inst_q, instances, rendered, sent, delivered, applied,
                       callbacks, envVars, poolVars, cvVars, drumVars, midiVars, streamVars, uiVars, oscVars, noiseVars, runVars, latchVars, reverbVars, stealVars, lifeVars>>

PanicProcessInstances ==
    /\ pc.at = "recv"
    /\ main_q = <<>>
    /\ RunInstances
    /\ callbacks' = Min(callbacks + 1, MaxCallbacks)
    /\ UNCHANGED <<main_q, sent, envVars, poolVars, cvVars, drumVars, midiVars, streamVars, uiVars, oscVars, noiseVars, runVars, latchVars, reverbVars, stealVars, lifeVars>>

NextPanic ==
    \/ PanicNoteOn \/ PanicAllNotesOff \/ PanicBegin
    \/ BroadcastRecv \/ BroadcastSend \/ PanicProcessInstances

\* the step of PanicProcessInstances as seen on pc: with the channel drained
\* the callback runs its instances and returns; no other action of NextPanic
\* takes pc from "recv" to "idle", and PanicProcessInstances is enabled
\* exactly when this is
CallbackReturns ==
    /\ pc.at = "recv"
    /\ main_q = <<>>
    /\ pc' = [pc EXCEPT !.at = "idle"]

\* the audio device keeps calling the callback, and a callback runs to its end
SpecPanic ==
    /\ InitPanic
    /\ [][NextPanic]_vars
    /\ WF_vars(PanicBegin)
    /\ WF_vars(BroadcastRecv)
    /\ WF_vars(BroadcastSend)
    /\ WF_pc(CallbackReturns)

\* ------------------------------------------------ the CV voice, driven alone
\* the notes, transposes and glide times (ms) the voice is called with
CVNotes == {FirstNote, FirstNote + 1, FirstNote + 2}
Transposes == {0, 1}
GlideTimes == {0, CVParams.glide}

InitCV == InitEnvVars /\ InitLifeVars /\ InitStealVars /\ InitReverbVars /\ InitLatchVars /\ InitRunVars /\ InitNoiseVars /\ InitOscVars /\ InitUiVars /\ InitStreamVars /\ InitMidiVars /\ InitDrumVars /\ InitCVVars /\ InitPoolVars(PoolSize) /\ InitMixVars(AllOmni)

\* the held notes after a press of note: it is the most recent press
Pressed(h, note) == Append(SelectSeq(h, LAMBDA n : n # note), note)

\* voice.note_on(note)
CVDoNoteOn ==
    \E note \in CVNotes :
        /\ cv' = CVNoteOn(cv, note)
        /\ cv_op' = [name |-> "note_on", note |-> note,
                   was_high |-> cv.gate_high]
        /\ held' = Pressed(held, note)
        /\ IF cv.gate_high /\ cv.glide_time > 0 /\ cv'.target_pitch # cv.current_pitch
           THEN glide_from' = cv.current_pitch /\ glide_calls' = 0
           ELSE glide_from' = 0 /\ glide_calls' = -1
        /\ UNCHANGED <<envVars, poolVars, mixVars, drumVars, midiVars, streamVars, uiVars, oscVars, noiseVars, runVars, latchVars, reverbVars, stealVars, lifeVars>>

\* voice.note_off(note)
CVDoNoteOff ==
    \E note \in CVNotes :
        /\ cv' = CVNoteOff(cv, note)
        /\ cv_op' = [name |-> "note_off", note |-> note,
                   was_high |-> cv.gate_high]
        /\ held' = SelectSeq(held, LAMBDA n : n # note)
        /\ glide_from' = 0
        /\ glide_calls' = -1
        /\ UNCHANGED <<envVars, poolVars, mixVars, drumVars, midiVars, streamVars, uiVars, oscVars, noiseVars, runVars, latchVars, reverbVars, stealVars, lifeVars>>

\* voice.all_notes_off()
CVDoAllNotesOff ==
    /\ cv' = CVAllNotesOff(cv)
    /\ cv_op' = [name |-> "all_notes_off", note |-> -1,
                   was_high |-> cv.gate_high]
    /\ held' = <<>>
    /\ glide_from' = 0
    /\ glide_calls' = -1
    /\ UNCHANGED <<envVars, poolVars, mixVars, drumVars, midiVars, streamVars, uiVars, oscVars, noiseVars, runVars, latchVars, reverbVars, stealVars, lifeVars>>

\* voice.set_transpose(transpose)
CVDoSetTranspose ==
    \E transpose \in Transposes :
        /\ cv' = CVSetTranspose(cv, transpose)
        /\ cv_op' = [name |-> "set_transpose", note |-> -1,
                   was_high |-> cv.gate_high]
        /\ glide_from' = 0
        /\ glide_calls' = -1
        /\ UNCHANGED <<held, envVars, poolVars, mixVars, drumVars, midiVars, streamVars, uiVars, oscVars, noiseVars, runVars, latchVars, reverbVars, stealVars, lifeVars>>

\* voice.set_glide_time(time)
CVDoSetGlideTime ==
    \E time \in GlideTimes :
        /\ cv' = CVSetGlideTime(cv, time)
        /\ cv_op' = [name |-> "set_glide_time", note |-> -1,
                   was_high |-> cv.gate_high]
        /\ glide_from' = 0
        /\ glide_calls' = -1
        /\ UNCHANGED <<held, envVars, poolVars, mixVars, drumVars, midiVars, streamVars, uiVars, oscVars, noiseVars, runVars, latchVars, reverbVars, stealVars, lifeVars>>

\* voice.next_pitch_sample() and voice.next_gate_sample(); the calls are
\* counted until the glide time has passed and one call more
CVDoSample ==
    /\ cv' = CVNextPitchSample(cv)
    /\ cv_op' = [name |-> "sample", note |-> -1,
                   was_high |-> cv.gate_high]
    /\ glide_calls' = IF glide_calls < 0 \/ glide_calls * 1000 >= cv.glide_time * SampleRateHz
                      THEN glide_calls ELSE glide_calls + 1
    /\ UNCHANGED <<held, glide_from, envVars, poolVars, mixVars, drumVars, midiVars, streamVars, uiVars, oscVars, noiseVars, runVars, latchVars, reverbVars, stealVars, lifeVars>>

NextCV ==
    \/ CVDoNoteOn \/ CVDoNoteOff \/ CVDoAllNotesOff
    \/ CVDoSetTranspose \/ CVDoSetGlideTime \/ CVDoSample

SpecCV == InitCV /\ [][NextCV]_vars

\* ------------------------------------- the CV note stack, key after key
\* keys FirstNote, FirstNote + 1, ... are pressed one after the other, past
\* the capacity of the stack; the first key may be pressed again while it is
\* held, and one key at a time may be released and pressed again
InitCVFill == InitCV

\* every key from FirstNote up to the highest pressed one is held
NoGap(h) == \A k \in 0..(Len(h) - 1) : \E j \in DOMAIN h : h[j] = FirstNote + k

\* voice.note_on(FirstNote + i) for the next key
FillPress ==
    /\ NoGap(held)
    /\ Len(held) < MAX_NOTES + 2
    /\ cv' = CVNoteOn(cv, FirstNote + Len(held))
    /\ cv_op' = [name |-> "note_on", note |-> FirstNote + Len(held),
                   was_high |-> cv.gate_high]
    /\ held' = Pressed(held, FirstNote + Len(held))
    /\ UNCHANGED <<glide_from, glide_calls, envVars, poolVars, mixVars, drumVars, midiVars, streamVars, uiVars, oscVars, noiseVars, runVars, latchVars, reverbVars, stealVars, lifeVars>>

\* voice.note_on(FirstNote) while that key is held
FillPressAgain ==
    /\ \E j \in DOMAIN held : held[j] = FirstNote
    /\ cv' = CVNoteOn(cv, FirstNote)
    /\ cv_op' = [name |-> "note_on", note |-> FirstNote,
                   was_high |-> cv.gate_high]
    /\ held' = Pressed(held, FirstNote)
    /\ UNCHANGED <<glide_from, glide_calls, envVars, poolVars, mixVars, drumVars, midiVars, streamVars, uiVars, oscVars, noiseVars, runVars, latchVars, reverbVars, stealVars, lifeVars>>

\* voice.note_off(note) of a held key, when no other key is missing
FillRelease ==
    \E j \in DOMAIN held :
        /\ NoGap(held)
        /\ cv' = CVNoteOff(cv, held[j])
        /\ cv_op' = [name |-> "note_off", note |-> held[j],
                   was_high |-> cv.gate_high]
        /\ held' = SelectSeq(held, LAMBDA n : n # held[j])
        /\ UNCHANGED <<glide_from, glide_calls, envVars, poolVars, mixVars, drumVars, midiVars, streamVars, uiVars, oscVars, noiseVars, runVars, latchVars, reverbVars, stealVars, lifeVars>>

NextCVFill == FillPress \/ FillPressAgain \/ FillRelease

SpecCVFill == InitCVFill /\ [][NextCVFill]_vars

\* ------------------------------------------ the CV engine, callback by callback
\* one CVEngine (omni) is given, per callback, the events that arrived (none
\* or one) and a block of frames; cv is its voice, glide_calls counts the
\* samples rendered since a legato NoteOn was handled
InitCVEngine ==
    /\ InitEnvVars /\ InitLifeVars /\ InitStealVars /\ InitReverbVars /\ InitLatchVars /\ InitRunVars /\ InitNoiseVars /\ InitOscVars /\ InitUiVars /\ InitStreamVars /\ InitMidiVars
    /\ InitDrumVars
    /\ InitPoolVars(PoolSize)
    /\ InitMixVars(AllOmni)
    /\ cv = CVEngineNew(Omni).voice
    /\ cv_op = [name |-> "new", note |-> -1, was_high |-> FALSE]
    /\ held = <<>>
    /\ glide_from = 0
    /\ glide_calls = -1

\* what a callback may find in the engine's channel
EventBatches ==
    {<<>>} \cup {<<NoteOnEvent(0, n, MidiNoteToFrequency(n))>> : n \in CVNotes}
           \cup {<<NoteOffEvent(0, n)>> : n \in CVNotes}
           \cup {<<AllNotesOffEvent(NoChannel)>>}

\* the held notes after the events of q
RECURSIVE HeldAfter(_, _)
HeldAfter(h, q) ==
    IF q = <<>> THEN h
    ELSE HeldAfter(CASE Head(q).type = "NoteOn" -> Pressed(h, Head(q).note)
                     [] Head(q).type = "NoteOff" -> SelectSeq(h, LAMBDA n : n # Head(q).note)
                     [] Head(q).type = "AllNotesOff" -> <<>>,
                   Tail(q))

\* CVEngine::process_dual_channel on a block of frames
CVEngineCallback ==
    \E q \in EventBatches, frames \in FrameCounts :
        LET e == [type |-> "CV", voice |-> cv, midi_channel_filter |-> Omni]
            total == CVParams.glide * SampleRateHz
            legato == /\ q # <<>>
                      /\ q[1].type = "NoteOn"
                      /\ cv.gate_high
                      /\ NoteToVoltage(q[1].note, CVParams.transpose) # cv.current_pitch
        IN  /\ cv' = CVEngineProcess(e, q, frames).engine.voice
            /\ cv_op' = [name |-> "process_dual_channel",
                         note |-> IF q = <<>> THEN -1 ELSE q[1].note,
                         was_high |-> cv.gate_high]
            /\ held' = HeldAfter(held, q)
            /\ glide_from' = IF legato THEN cv.current_pitch
                             ELSE IF q = <<>> THEN glide_from ELSE 0
            /\ glide_calls' = IF legato THEN frames
                              ELSE IF q # <<>> \/ glide_calls < 0 THEN -1
                              ELSE IF glide_calls * 1000 >= total THEN glide_calls
                              ELSE glide_calls + frames
            /\ UNCHANGED <<envVars, poolVars, mixVars, drumVars, midiVars, streamVars, uiVars, oscVars, noiseVars, runVars, latchVars, reverbVars, stealVars, lifeVars>>

NextCVEngine == CVEngineCallback

SpecCVEngine == InitCVEngine /\ [][NextCVEngine]_vars

\* ------------------------------------------------ a drum voice, driven alone
\* a kick, a snare or a hat is triggered and asked for samples
InitDrum ==
    /\ InitEnvVars /\ InitLifeVars /\ InitStealVars /\ InitReverbVars /\ InitLatchVars /\ InitRunVars /\ InitNoiseVars /\ InitOscVars /\ InitUiVars /\ InitStreamVars /\ InitMidiVars
    /\ InitCVVars
    /\ InitPoolVars(PoolSize)
    /\ InitMixVars(AllOmni)
    /\ \E kind \in DrumTypes : drum = DrumVoiceNew(kind)
    /\ drum_calls = -1

\* the next_sample calls made on the voice so far
DrumSampleCount(d) ==
    CHOOSE n \in {e.sample_count : e \in DrumEnvelopes(d)} : TRUE

\* voice.trigger()
DrumDoTrigger ==
    /\ drum' = DrumVoiceTrigger(drum)
    /\ drum_calls' = 0
    /\ UNCHANGED <<envVars, poolVars, mixVars, cvVars, midiVars, streamVars, uiVars, oscVars, noiseVars, runVars, latchVars, reverbVars, stealVars, lifeVars>>

\* voice.next_sample()
DrumDoNextSample ==
    /\ DrumSampleCount(drum) < MaxDrumSamples
    /\ drum' = DrumVoiceAdvance(drum)
    /\ drum_calls' = IF drum_calls < 0 THEN drum_calls ELSE drum_calls + 1
    /\ UNCHANGED <<envVars, poolVars, mixVars, cvVars, midiVars, streamVars, uiVars, oscVars, noiseVars, runVars, latchVars, reverbVars, stealVars, lifeVars>>

NextDrum == DrumDoTrigger \/ DrumDoNextSample

SpecDrum == InitDrum /\ [][NextDrum]_vars

\* ------------------------------------------------------ the MIDI callback
\* the bytes a port hands to the callback: statuses of every kind the parser
\* tells apart (on channels 0, 1 and 15), a data byte in the place of a status,
\* and second and third bytes on both sides of 127
StatusBytes == {128, 144, 145, 159, 177, 192, 60}
DataBytes == {0, 60, 123, 127, 200}
\* what follows the third byte of a longer slice
TrailingBytes == {247}
MaxBytes == 4

RECURSIVE SlicesOf(_)
\* the slices of a given length: a status byte followed by data bytes
SlicesOf(n) ==
    IF n = 0 THEN {<<>>}
    ELSE IF n = 1 THEN {<<s>> : s \in StatusBytes}
    ELSE {Append(b, d) : b \in SlicesOf(n - 1),
                         d \in IF n <= 3 THEN DataBytes ELSE TrailingBytes}

ByteSlices == UNION {SlicesOf(n) : n \in 0..MaxBytes}

\* the --midi-channel values the program is started with
ChannelFilters == {Omni, 0, 1}

InitMidi ==
    /\ InitEnvVars /\ InitLifeVars /\ InitStealVars /\ InitReverbVars /\ InitLatchVars /\ InitRunVars /\ InitNoiseVars /\ InitOscVars /\ InitUiVars /\ InitStreamVars /\ InitDrumVars /\ InitCVVars
    /\ InitPoolVars(PoolSize) /\ InitMixVars(AllOmni)
    /\ midi_in = <<>>
    /\ midi_message = UnknownMessage
    /\ midi_event = NoSynthEvent
    /\ \E c \in ChannelFilters : midi_channel = c

\* the closure handed to midi_in.connect: parse, read the filter, convert,
\* try_send
MidiReceive ==
    \E bytes \in ByteSlices :
        LET message == Parse(bytes)
        IN  /\ midi_in' = bytes
            /\ midi_message' = message
            /\ midi_event' = ToSynthEvent(message, midi_channel)
            /\ UNCHANGED midi_channel
            /\ UNCHANGED <<envVars, poolVars, mixVars, cvVars, drumVars, streamVars, uiVars, oscVars, noiseVars, runVars, latchVars, reverbVars, stealVars, lifeVars>>

NextMidi == MidiReceive

SpecMidi == InitMidi /\ [][NextMidi]_vars

\* ------------------------------------------ the output stream's callback
\* the instance lists a validated configuration gives: audio_channel is
\* audioch - 1 with audioch >= 1 a usize, so 0..UsizeMax - 1
StreamChannels ==
    {<<0, 0, 2, NumChannels>>, <<1, NumChannels - 1, NumChannels - 1, 0>>,
     <<NumChannels, 3, UsizeMax - 1, UsizeMax - 1>>}

\* the lengths of the device buffers handed to the callback, one of them not
\* a multiple of the channel count
DataLens == {0, NumChannels + 1, 2 * NumChannels}

\* the guard of every mix loop: if ch < num_channels
ChannelInRange(ch) == ch < NumChannels

\* output[frame_idx * num_channels + ch] of a slice of length len is out of
\* bounds for some frame
MixIndexPanics(len, frames, ch) ==
    \E frame_idx \in 0..(frames - 1) : frame_idx * NumChannels + ch >= len

\* a mix loop that runs unguarded
MixPanicsUnguarded(len, frames, ch) == MixIndexPanics(len, frames, ch)

\* one mix loop panics
MixPanics(len, frames, ch) == ChannelInRange(ch) /\ MixIndexPanics(len, frames, ch)

\* the body of the loop over the instances panics: the assertion of
\* process_dual_channel on the lengths of its two buffers, audio_channel + 1
\* (checked in a debug build), or one of the mix loops
InstancePanics(instance, len, frames) ==
    IF instance.uses_dual_channel
    THEN \/ Len(Silence(frames)) # Len(Silence(frames))
         \/ GateChannel(instance) > UsizeMax
         \/ MixPanics(len, frames, instance.audio_channel)
         \/ MixPanics(len, frames, GateChannel(instance))
    ELSE MixPanics(len, frames, instance.audio_channel)

\* MultiEngineSynth::process on a slice of length len panics
ProcessPanics(insts, len) ==
    \/ NumChannels = 0
    \/ \E i \in DOMAIN insts : InstancePanics(insts[i], len, len \div NumChannels)

\* the heap allocations of MultiEngineSynth::process: vec![0.0f32; frames]
\* for pitch_buffer and for gate_buffer (a vec of no element allocates nothing)
ProcessAllocs(frames) == IF frames > 0 THEN 2 ELSE 0

InitStream ==
    /\ InitEnvVars /\ InitLifeVars /\ InitStealVars /\ InitReverbVars /\ InitLatchVars /\ InitRunVars /\ InitNoiseVars /\ InitOscVars /\ InitUiVars /\ InitMidiVars /\ InitDrumVars /\ InitCVVars
    /\ InitPoolVars(PoolSize)
    /\ InitStreamVars
    /\ InitMixVars(AllOmni)

\* the stream is built with one of the instance lists
StreamInstances(chs) ==
    [i \in 1..Len(InstanceSpecs(AllOmni)) |->
        [InstanceSpecs(AllOmni)[i] EXCEPT !.audio_channel = chs[i]]]

\* the events the MIDI thread sends while the stream runs
StreamEvents ==
    {NoteOnEvent(0, FirstNote, MidiNoteToFrequency(FirstNote)), AllNotesOffEvent(NoChannel)}

\* the MIDI thread sends an event into the main queue
StreamMidi ==
    \E event \in StreamEvents :
        /\ Len(sent) < MaxStreamEvents
        /\ main_q' = TrySend(main_q, event)
        /\ sent' = Append(sent, event)
        /\ UNCHANGED <<inst_q, instances, pc, output, rendered, delivered, applied,
                       callbacks, envVars, poolVars, cvVars, drumVars, midiVars,
                       streamVars, uiVars, oscVars, noiseVars, runVars, latchVars, reverbVars, stealVars, lifeVars>>

\* the callback is entered: frames, the temp buffer grown if it is too short,
\* process called on temp_buffer[..frames * num_channels], output.fill(0.0)
StreamBegin ==
    \E len \in DataLens, chs \in StreamChannels :
        LET frames == len \div NumChannels
            grows == temp_buffer < frames * NumChannels
        IN  /\ pc.at = "idle"
            /\ callbacks < MaxStreamCallbacks
            /\ callbacks = 0 \/ chs = [i \in DOMAIN instances |-> instances[i].audio_channel]
            /\ instances' = IF callbacks = 0 THEN StreamInstances(chs) ELSE instances
            /\ data_len' = len
            /\ temp_buffer' = IF grows THEN frames * NumChannels ELSE temp_buffer
            /\ allocs' = IF grows THEN 1 ELSE 0
            /\ seen' = IF callbacks = 0 THEN 0 ELSE Max(seen, pc.frames)
            /\ panicked' = (panicked \/ frames * NumChannels > temp_buffer')
            /\ output' = ClearedOutput(frames)
            /\ pc' = [at |-> "recv", frames |-> frames, event |-> NoEvent, next |-> 0]
            /\ pending' = Len(main_q)
            /\ drained' = 0
            /\ UNCHANGED <<main_q, inst_q, rendered, sent, delivered, applied, callbacks,
                           frame_counter, envVars, poolVars, cvVars, drumVars, midiVars, uiVars, oscVars, noiseVars, runVars, latchVars, reverbVars, stealVars, lifeVars>>

\* one turn of the drain loop: try_recv gave an event, which is sent to
\* every instance
StreamRecv ==
    /\ pc.at = "recv"
    /\ main_q # <<>>
    /\ main_q' = Tail(main_q)
    /\ inst_q' = [i \in DOMAIN inst_q |-> TrySend(inst_q[i], Head(main_q))]
    /\ drained' = drained + 1
    /\ UNCHANGED <<instances, pc, output, rendered, sent, delivered, applied, callbacks,
                   temp_buffer, data_len, allocs, seen, panicked, pending,
                   frame_counter, envVars, poolVars, cvVars, drumVars, midiVars, uiVars, oscVars, noiseVars, runVars, latchVars, reverbVars, stealVars, lifeVars>>

\* try_recv found the main channel empty: the scratch buffers are made, the
\* instances are processed and mixed, the samples are converted into the
\* device buffer and the voice states are sent when they are due
StreamFinish ==
    LET len == pc.frames * NumChannels
        due == frame_counter + pc.frames > VoiceReportFrames
    IN  /\ pc.at = "recv"
        /\ main_q = <<>>
        /\ RunInstances
        /\ callbacks' = callbacks + 1
        /\ allocs' = allocs + ProcessAllocs(pc.frames) + (IF due THEN 1 ELSE 0)
        /\ panicked' = (panicked \/ ProcessPanics(instances, len) \/ len > data_len)
        /\ frame_counter' = IF due THEN 0 ELSE frame_counter + pc.frames
        /\ UNCHANGED <<main_q, sent, temp_buffer, data_len, seen, drained, pending,
                       envVars, poolVars, cvVars, drumVars, midiVars, uiVars, oscVars, noiseVars, runVars, latchVars, reverbVars, stealVars, lifeVars>>

NextStream == StreamMidi \/ StreamBegin \/ StreamRecv \/ StreamFinish

SpecStream == InitStream /\ [][NextStream]_vars

\* --------------------------------------------------- the parameter editor
\* the configurations the program starts from: every field at the least
\* value its validator accepts, at its default, or at the greatest
ValidConfigs ==
    {[kind \in InstanceKinds |-> [field \in FieldsOf(kind) |-> ValidRange(field).min]],
     [kind \in InstanceKinds |-> [field \in FieldsOf(kind) |-> ValidRange(field).default]],
     [kind \in InstanceKinds |-> [field \in FieldsOf(kind) |-> ValidRange(field).max]]}

\* startup: the parameter blocks are filled from the validated configuration
InitUi ==
    /\ InitEnvVars /\ InitLifeVars /\ InitStealVars /\ InitReverbVars /\ InitLatchVars /\ InitRunVars /\ InitNoiseVars /\ InitOscVars /\ InitStreamVars /\ InitMidiVars /\ InitDrumVars /\ InitCVVars
    /\ InitPoolVars(PoolSize) /\ InitMixVars(AllOmni)
    /\ \E configs \in ValidConfigs : ui_config = configs /\ ui_params = configs
    /\ ui_op = [name |-> "new", kind |-> "Synth", field |-> "attack"]
    /\ edits = 0

\* the fields the editor's selection can stand on while an instance of the
\* kind is current: selected_param, selected_drum_param, selected_cv_param
Selectable(kind) ==
    CASE kind = "Synth" -> FieldsOf("Synth")
      [] kind \in {"Kick", "Snare", "Hat"} ->
             FieldsOf("Kick") \cup FieldsOf("Snare") \cup FieldsOf("Hat")
      [] kind = "CV" -> FieldsOf("CV")

\* the increase key on the current instance
UiIncrease ==
    \E kind \in InstanceKinds : \E field \in Selectable(kind) :
        LET configs == [ui_config EXCEPT ![kind] = IncreaseValue(@, field)]
        IN  /\ edits < MaxEdits
            /\ ui_config' = configs
            /\ ui_params' = SyncToAudio(ui_params, configs, kind)
            /\ ui_op' = [name |-> "increase", kind |-> kind, field |-> field]
            /\ edits' = edits + 1
            /\ UNCHANGED <<envVars, poolVars, mixVars, cvVars, drumVars, midiVars,
                           streamVars, oscVars, noiseVars, runVars, latchVars, reverbVars, stealVars, lifeVars>>

\* the decrease key on the current instance
UiDecrease ==
    \E kind \in InstanceKinds : \E field \in Selectable(kind) :
        LET configs == [ui_config EXCEPT ![kind] = DecreaseValue(@, field)]
        IN  /\ edits < MaxEdits
            /\ ui_config' = configs
            /\ ui_params' = SyncToAudio(ui_params, configs, kind)
            /\ ui_op' = [name |-> "decrease", kind |-> kind, field |-> field]
            /\ edits' = edits + 1
            /\ UNCHANGED <<envVars, poolVars, mixVars, cvVars, drumVars, midiVars,
                           streamVars, oscVars, noiseVars, runVars, latchVars, reverbVars, stealVars, lifeVars>>

NextUi == UiIncrease \/ UiDecrease

SpecUi == InitUi /\ [][NextUi]_vars

\* ------------------------------------------------- the oscillator alone
\* frequencies handed to set_frequency: zero, an audible note, the sample
\* rate, and frequencies above it
OscFrequencies ==
    {0, DefaultFrequency, SampleRateHz, SampleRateHz + DefaultFrequency,
     2 * SampleRateHz}

InitOsc ==
    /\ InitEnvVars /\ InitLifeVars /\ InitStealVars /\ InitReverbVars /\ InitLatchVars /\ InitRunVars /\ InitNoiseVars /\ InitStreamVars /\ InitMidiVars /\ InitDrumVars /\ InitCVVars
    /\ InitUiVars /\ InitPoolVars(PoolSize) /\ InitMixVars(AllOmni)
    /\ InitOscVars

OscDoSetFrequency ==
    \E f \in OscFrequencies :
        /\ osc_calls < MaxOscCalls
        /\ osc' = OscSetFrequency(osc, f)
        /\ osc_op' = "set_frequency"
        /\ osc_calls' = osc_calls + 1
        /\ UNCHANGED <<envVars, poolVars, mixVars, cvVars, drumVars, midiVars,
                       streamVars, uiVars, noiseVars, runVars, latchVars, reverbVars, stealVars, lifeVars>>

OscDoSetWaveform ==
    \E w \in {WaveformFromU8(v) : v \in 0..3} :
        /\ osc_calls < MaxOscCalls
        /\ osc' = OscSetWaveform(osc, w)
        /\ osc_op' = "set_waveform"
        /\ osc_calls' = osc_calls + 1
        /\ UNCHANGED <<envVars, poolVars, mixVars, cvVars, drumVars, midiVars,
                       streamVars, uiVars, noiseVars, runVars, latchVars, reverbVars, stealVars, lifeVars>>

OscDoReset ==
    /\ osc_calls < MaxOscCalls
    /\ osc' = OscReset(osc)
    /\ osc_op' = "reset"
    /\ osc_calls' = osc_calls + 1
    /\ UNCHANGED <<envVars, poolVars, mixVars, cvVars, drumVars, midiVars,
                   streamVars, uiVars, noiseVars, runVars, latchVars, reverbVars, stealVars, lifeVars>>

OscDoNextSample ==
    /\ osc_calls < MaxOscCalls
    /\ osc' = OscAdvance(osc)
    /\ osc_op' = "next_sample"
    /\ osc_calls' = osc_calls + 1
    /\ UNCHANGED <<envVars, poolVars, mixVars, cvVars, drumVars, midiVars,
                   streamVars, uiVars, noiseVars, runVars, latchVars, reverbVars, stealVars, lifeVars>>

NextOsc == OscDoSetFrequency \/ OscDoSetWaveform \/ OscDoReset \/ OscDoNextSample

SpecOsc == InitOsc /\ [][NextOsc]_vars

\* ------------------------------------------------- two noise generators
\* seeds: the default, the test's 42, zero, and the seeds whose first state
\* is 0xFFFFFFFF, 0xFFFFFF80 (a tie of the f32 rounding) and 0
Seeds ==
    {[hi |-> DefaultSeedHi, lo |-> DefaultSeedLo], [hi |-> 0, lo |-> 42],
     [hi |-> 0, lo |-> 0], [hi |-> 9973, lo |-> 46880],
     [hi |-> 46505, lo |-> 44389], [hi |-> 9686, lo |-> 4069]}

InitNoise ==
    /\ InitEnvVars /\ InitLifeVars /\ InitStealVars /\ InitReverbVars /\ InitLatchVars /\ InitRunVars /\ InitStreamVars /\ InitMidiVars /\ InitDrumVars /\ InitCVVars
    /\ InitUiVars /\ InitOscVars /\ InitPoolVars(PoolSize) /\ InitMixVars(AllOmni)
    /\ \E seed \in Seeds :
           /\ noise1 = NoiseNewWithSeed(seed)
           /\ noise2 = NoiseNewWithSeed(seed)
    /\ samples1 = <<>>
    /\ samples2 = <<>>

Noise1NextSample ==
    /\ Len(samples1) < MaxNoiseCalls
    /\ noise1' = NoiseAdvance(noise1)
    /\ samples1' = Append(samples1, NoiseOutput(noise1))
    /\ UNCHANGED <<noise2, samples2>>
    /\ UNCHANGED <<envVars, poolVars, mixVars, cvVars, drumVars, midiVars,
                   streamVars, uiVars, oscVars, runVars, latchVars, reverbVars, stealVars, lifeVars>>

Noise2NextSample ==
    /\ Len(samples2) < MaxNoiseCalls
    /\ noise2' = NoiseAdvance(noise2)
    /\ samples2' = Append(samples2, NoiseOutput(noise2))
    /\ UNCHANGED <<noise1, samples1>>
    /\ UNCHANGED <<envVars, poolVars, mixVars, cvVars, drumVars, midiVars,
                   streamVars, uiVars, oscVars, runVars, latchVars, reverbVars, stealVars, lifeVars>>

NextNoise == Noise1NextSample \/ Noise2NextSample

SpecNoise == InitNoise /\ [][NextNoise]_vars

\* ------------------------------------------------------ run_config_mode
\* a synth instance of the configuration file with its defaults
DefaultSynth ==
    [midich |-> 1, audioch |-> 1, attack |-> ValidRange("attack").default,
     decay |-> ValidRange("decay").default, sustain |-> ValidRange("sustain").default,
     release |-> ValidRange("release").default]

\* synth instances: valid ones, and ones with a single defect
SynthCandidates ==
    {DefaultSynth, [DefaultSynth EXCEPT !.midich = OmniSpec],
     [DefaultSynth EXCEPT !.midich = 16, !.attack = ValidRange("attack").max],
     [DefaultSynth EXCEPT !.attack = 0 - 1],
     [DefaultSynth EXCEPT !.release = ValidRange("release").max + 1],
     [DefaultSynth EXCEPT !.sustain = ValidRange("sustain").max + 1],
     [DefaultSynth EXCEPT !.midich = 0], [DefaultSynth EXCEPT !.midich = 17],
     [DefaultSynth EXCEPT !.audioch = 0]}

\* a kick instance with its defaults
DefaultDrum ==
    [field \in FieldsOf("Kick") \cup FieldsOf("Snare") \cup FieldsOf("Hat") |->
        ValidRange(field).default]
    @@ [midich |-> 10, audioch |-> 2, drum_type |-> "Kick", note |-> <<"c", "1">>]

\* drum instances: valid ones (a snare does not check the kick's fields), and
\* ones with a single defect
DrumCandidates ==
    {DefaultDrum, [DefaultDrum EXCEPT !.note = <<"g", "b", "1">>],
     [DefaultDrum EXCEPT !.drum_type = "Snare", !.kick_pitch_start = 0],
     [DefaultDrum EXCEPT !.note = <<>>], [DefaultDrum EXCEPT !.note = <<"h", "1">>],
     [DefaultDrum EXCEPT !.note = <<"c">>], [DefaultDrum EXCEPT !.note = <<"c", "1", "0">>],
     [DefaultDrum EXCEPT !.note = <<"c", "-", "2">>],
     [DefaultDrum EXCEPT !.note = <<"c", "1", "x">>],
     [DefaultDrum EXCEPT !.kick_pitch_start = ValidRange("kick_pitch_start").min - 1],
     [DefaultDrum EXCEPT !.midich = 17], [DefaultDrum EXCEPT !.audioch = 0]}

\* sequences of at most n elements of a set
RECURSIVE SeqsUpTo(_, _)
SeqsUpTo(S, n) ==
    IF n = 0 THEN {<<>>}
    ELSE LET shorter == SeqsUpTo(S, n - 1)
         IN  shorter \cup {Append(s, x) : s \in shorter, x \in S}

\* the files run_config_mode may be given
ConfigFiles ==
    {[readable |-> FALSE, well_formed |-> FALSE, config |-> [poly16s |-> <<>>, drums |-> <<>>]],
     [readable |-> TRUE, well_formed |-> FALSE, config |-> [poly16s |-> <<>>, drums |-> <<>>]]}
    \cup {[readable |-> TRUE, well_formed |-> TRUE, config |-> [poly16s |-> p, drums |-> d]] :
            p \in SeqsUpTo(SynthCandidates, MaxSynths), d \in SeqsUpTo(DrumCandidates, MaxDrums)}

InitRun ==
    /\ InitEnvVars /\ InitLifeVars /\ InitStealVars /\ InitReverbVars /\ InitLatchVars /\ InitStreamVars /\ InitMidiVars /\ InitDrumVars /\ InitCVVars
    /\ InitUiVars /\ InitOscVars /\ InitNoiseVars
    /\ InitPoolVars(PoolSize) /\ InitMixVars(AllOmni)
    /\ run_file \in ConfigFiles
    /\ run_pc = "start"
    /\ run_result = NoResult
    /\ midi_connected = FALSE
    /\ stream_started = FALSE

\* what every step of run_config_mode leaves alone
RunFrame ==
    /\ UNCHANGED run_file
    /\ UNCHANGED <<envVars, poolVars, mixVars, cvVars, drumVars, midiVars,
                   streamVars, uiVars, oscVars, noiseVars, latchVars, reverbVars, stealVars, lifeVars>>

\* a step that failed: the ? operator returns the error
RunFail(step) == run_pc' = "returned" /\ run_result' = step

\* let config = SynthConfig::load(&config_path)?
RunLoad ==
    /\ run_pc = "start"
    /\ LET loaded == SynthConfigLoad(run_file)
       IN  IF loaded = "Ok" THEN run_pc' = "loaded" /\ UNCHANGED run_result
           ELSE RunFail(loaded)
    /\ UNCHANGED <<midi_connected, stream_started>>
    /\ RunFrame

\* find_midi_device(..)?; find_audio_device(..)?
RunFindDevices ==
    /\ run_pc = "loaded"
    /\ \E found \in BOOLEAN :
           IF found THEN run_pc' = "found" /\ UNCHANGED run_result
           ELSE RunFail("device")
    /\ UNCHANGED <<midi_connected, stream_started>>
    /\ RunFrame

\* the parameter blocks are filled, then MidiHandler::new_with_device(..)?
RunConnectMidi ==
    /\ run_pc = "found"
    /\ \E connected \in BOOLEAN :
           IF connected
           THEN run_pc' = "midi" /\ midi_connected' = TRUE /\ UNCHANGED run_result
           ELSE RunFail("midi") /\ UNCHANGED midi_connected
    /\ UNCHANGED stream_started
    /\ RunFrame

\* the output device is opened, then start_multi_audio_stream(..)?  The MIDI
\* connection is dropped when the function returns an error.
RunStartStream ==
    /\ run_pc = "midi"
    /\ \E started \in BOOLEAN :
           IF started
           THEN run_pc' = "running" /\ stream_started' = TRUE
                /\ UNCHANGED <<run_result, midi_connected>>
           ELSE RunFail("audio") /\ midi_connected' = FALSE /\ UNCHANGED stream_started
    /\ RunFrame

\* the UI loop ends, the stream and the MIDI connection are dropped, Ok(())
RunQuit ==
    /\ run_pc = "running"
    /\ run_pc' = "returned"
    /\ run_result' = "Ok"
    /\ midi_connected' = FALSE
    /\ stream_started' = FALSE
    /\ RunFrame

NextRun == RunLoad \/ RunFindDevices \/ RunConnectMidi \/ RunStartStream \/ RunQuit

SpecRun == InitRun /\ [][NextRun]_vars

\* ------------------------------------- the editor and the audio callback
\* the kinds of engine the callback runs, in the order of the instance list
LatchKinds == <<"Synth", "Kick", "CV">>

\* the note every event of this specification carries: the kick's trigger
LatchNote == 36

\* the kick's parameter block as the editor's fields fill it
KickBlock(fields) ==
    [pitch_start |-> fields.kick_pitch_start, pitch_end |-> fields.kick_pitch_end,
     pitch_decay |-> fields.kick_pitch_decay, decay |-> fields.kick_decay,
     click |-> fields.kick_click]

\* the while-let loop of DrumEngine::process with the kick reading the block
RECURSIVE DrumHandleEventsWith(_, _, _)
DrumHandleEventsWith(e, q, params) ==
    IF q = <<>> THEN e
    ELSE LET event == Head(q)
             next == IF DrumShouldProcessEvent(e, event) /\ event.type = "NoteOn"
                        /\ event.note = e.trigger_note
                     THEN [e EXCEPT !.voice = KickTriggerWith(e.voice, params)]
                     ELSE e
         IN  DrumHandleEventsWith(next, Tail(q), params)

\* the part of an engine's process before the rendering loop: the events are
\* handled and the parameter block is loaded where the engine loads it
EngineLatch(kind, e, q, block) ==
    CASE kind = "Synth" ->
            LET handled == HandleEvents(e, q)
            IN  [handled EXCEPT !.voice_pool =
                    PoolSetWaveform(
                        PoolSetAdsr(handled.voice_pool, block.attack, block.decay,
                                    block.sustain \div One, block.release),
                        WaveformFromU8(block.wave))]
      [] kind = "Kick" -> DrumHandleEventsWith(e, q, KickBlock(block))
      [] kind = "CV" ->
            LET handled == HandleEvents(e, q)
            IN  [handled EXCEPT !.voice =
                    CVSetTranspose(CVSetGlideTime(handled.voice, block.glide),
                                   block.transpose)]

\* the rendering loop of an engine's process
EngineRender(kind, e, frames) ==
    CASE kind = "Synth" -> [e EXCEPT !.voice_pool = PoolProcess(e.voice_pool, frames)]
      [] kind = "Kick" -> IF KickIsActive(e.voice)
                          THEN [e EXCEPT !.voice = KickAfter(e.voice, frames)]
                          ELSE e
      [] kind = "CV" -> [e EXCEPT !.voice = CVAfter(e.voice, frames)]

\* the parameter values an engine renders with
InEffect(kind, e) ==
    CASE kind = "Synth" ->
            LET v == e.voice_pool.voices[1].voice
            IN  [attack |-> v.envelope.attack, decay |-> v.envelope.decay,
                 sustain |-> v.envelope.sustain, release |-> v.envelope.release,
                 waveform |-> v.oscillator.waveform]
      [] kind = "Kick" ->
            [pitch_start |-> e.voice.start_frequency, pitch_end |-> e.voice.base_frequency,
             pitch_decay |-> e.voice.pitch_envelope.decay,
             decay |-> e.voice.amp_envelope.decay, click |-> e.voice.click_amount]
      [] kind = "CV" -> [glide |-> e.voice.glide_time, transpose |-> e.voice.transpose]

\* start_multi_audio_stream: the engines are built; the kick loads its block
\* in new_with_parameters
InitLatch ==
    /\ InitEnvVars /\ InitLifeVars /\ InitStealVars /\ InitReverbVars /\ InitStreamVars /\ InitMidiVars /\ InitDrumVars /\ InitCVVars
    /\ InitOscVars /\ InitNoiseVars /\ InitRunVars
    /\ InitPoolVars(PoolSize) /\ InitMixVars(AllOmni)
    /\ ui_config = [kind \in InstanceKinds |->
                       [field \in FieldsOf(kind) |-> ValidRange(field).default]]
    /\ ui_params = ui_config
    /\ ui_op = [name |-> "new", kind |-> "Synth", field |-> "attack"]
    /\ edits = 0
    /\ lat_engines =
           [kind \in {"Synth", "Kick", "CV"} |->
               CASE kind = "Synth" -> SynthEngineNew(Omni)
                 [] kind = "Kick" ->
                        [DrumEngineNew(LatchNote, Omni) EXCEPT
                            !.voice = KickUpdateFrom(@, KickBlock(ui_params["Kick"]))]
                 [] kind = "CV" -> CVEngineNew(Omni)]
    /\ lat_queue = <<>>
    /\ lat_pc = [kind |-> "None", at |-> "idle"]
    /\ lat_dirty = {}
    /\ lat_calls = 0

LatchFrame ==
    UNCHANGED <<envVars, poolVars, mixVars, cvVars, drumVars, midiVars,
                streamVars, oscVars, noiseVars, runVars, reverbVars, stealVars, lifeVars>>

\* the fields the editor changes in this specification
LatchFields ==
    {<<"Synth", "attack">>, <<"Kick", "kick_decay">>, <<"CV", "transpose">>}

\* UI thread: the increase or decrease key on a field, then the sync
LatchEdit ==
    \E kf \in LatchFields : \E name \in {"increase", "decrease"} :
        LET kind == kf[1]
            field == kf[2]
            edited == IF name = "increase" THEN IncreaseValue(ui_config[kind], field)
                      ELSE DecreaseValue(ui_config[kind], field)
            configs == [ui_config EXCEPT ![kind] = edited]
        IN  /\ edits < MaxLatchEdits
            /\ ui_config' = configs
            /\ ui_params' = SyncToAudio(ui_params, configs, kind)
            /\ ui_op' = [name |-> name, kind |-> kind, field |-> field]
            /\ edits' = edits + 1
            /\ lat_dirty' = lat_dirty \cup {kind}
            /\ UNCHANGED <<lat_engines, lat_queue, lat_pc, lat_calls>>
            /\ LatchFrame

\* MIDI thread: a NoteOn of the trigger note reaches every engine's queue
LatchNoteOn ==
    /\ Len(lat_queue) < MaxLatchEvents
    /\ lat_calls < MaxLatchCallbacks
    /\ lat_pc.at = "idle"
    /\ lat_queue' = Append(lat_queue, NoteOnEvent(0, LatchNote, MidiNoteToFrequency(LatchNote)))
    /\ UNCHANGED <<lat_engines, lat_pc, lat_dirty, lat_calls>>
    /\ UNCHANGED uiVars
    /\ LatchFrame

\* the device calls the callback
LatchBegin ==
    /\ lat_pc.at = "idle"
    /\ lat_calls < MaxLatchCallbacks
    /\ lat_pc' = [kind |-> LatchKinds[1], at |-> "latch"]
    /\ lat_dirty' = {}
    /\ lat_calls' = lat_calls + 1
    /\ UNCHANGED <<lat_engines, lat_queue>>
    /\ UNCHANGED uiVars
    /\ LatchFrame

\* an engine's process up to its rendering loop
LatchLoad ==
    /\ lat_pc.at = "latch"
    /\ lat_engines' = [lat_engines EXCEPT ![lat_pc.kind] =
                           EngineLatch(lat_pc.kind, @, lat_queue, ui_params[lat_pc.kind])]
    /\ lat_pc' = [lat_pc EXCEPT !.at = "render"]
    /\ UNCHANGED <<lat_queue, lat_dirty, lat_calls>>
    /\ UNCHANGED uiVars
    /\ LatchFrame

\* an engine's rendering loop; after the last engine the callback returns
LatchRender ==
    /\ lat_pc.at = "render"
    /\ lat_engines' = [lat_engines EXCEPT ![lat_pc.kind] = EngineRender(lat_pc.kind, @, 1)]
    /\ LET i == CHOOSE j \in 1..Len(LatchKinds) : LatchKinds[j] = lat_pc.kind
       IN  IF i < Len(LatchKinds)
           THEN lat_pc' = [kind |-> LatchKinds[i + 1], at |-> "latch"]
                /\ UNCHANGED lat_queue
           ELSE lat_pc' = [kind |-> "None", at |-> "idle"] /\ lat_queue' = <<>>
    /\ UNCHANGED <<lat_dirty, lat_calls>>
    /\ UNCHANGED uiVars
    /\ LatchFrame

NextLatch == LatchEdit \/ LatchNoteOn \/ LatchBegin \/ LatchLoad \/ LatchRender

SpecLatch == InitLatch /\ [][NextLatch]_vars

\* -------------------------------------------------------- the reverb alone
\* sample rates in Hz: the tuned rate, usual device rates, and low rates down
\* to the least rate at which every delay is a sample long, and below
SampleRates == {50, 100, 195, 196, 8000, 22050, 44100, 48000, 96000}

InitReverb ==
    /\ InitEnvVars /\ InitLifeVars /\ InitStealVars /\ InitStreamVars /\ InitMidiVars /\ InitDrumVars /\ InitCVVars
    /\ InitUiVars /\ InitOscVars /\ InitNoiseVars /\ InitRunVars /\ InitLatchVars
    /\ InitPoolVars(PoolSize) /\ InitMixVars(AllOmni)
    /\ \E sample_rate \in SampleRates :
           reverb = [sample_rate |-> sample_rate] @@ ReverbNew(sample_rate)
    /\ rv_samples = 0
    /\ rv_panicked = FALSE

\* reverb.process(input): a panic ends the thread
ReverbDoProcess ==
    /\ ~rv_panicked
    /\ rv_samples < MaxReverbSamples
    /\ IF ReverbPanics(reverb)
       THEN rv_panicked' = TRUE /\ UNCHANGED reverb
       ELSE reverb' = [sample_rate |-> reverb.sample_rate] @@ ReverbProcess(reverb)
            /\ UNCHANGED rv_panicked
    /\ rv_samples' = rv_samples + 1
    /\ UNCHANGED <<envVars, poolVars, mixVars, cvVars, drumVars, midiVars,
                   streamVars, uiVars, oscVars, noiseVars, runVars, latchVars, stealVars, lifeVars>>

NextReverb == ReverbDoProcess

SpecReverb == InitReverb /\ [][NextReverb]_vars

\* ------------------------------------------------------------------ C7
\* C7: whatever set_adsr, note_on, note_off and next_sample calls came before
\* (parameter changes in the middle of a stage and re-triggering included),
\* the level next_sample returns is in [0,1].
EnvLevelInRange ==
    op = "next_sample" => (env.current_level >= 0 /\ env.current_level <= One)

\* a Release whose parameters were changed after the note_off, at a level
\* strictly between 0 and 1
EnvLevelInRangeWitness ==
    /\ op = "next_sample"
    /\ env.state = "Release"
    /\ since_off = -1
    /\ env.current_level > 0
    /\ env.current_level < One

\* ------------------------------------------------------------------ C8
ReleaseBound(e) == StageSamples(e.attack + e.decay + e.release) + 1

\* C8: with the ADSR parameters unchanged since the last note_off, is_active()
\* is false once (attack+decay+release)*sample_rate + 1 calls of next_sample
\* have followed that note_off, and an envelope that went idle after a
\* note_off stays idle under every call but note_on (and a further note_off).
EnvIdleAfterRelease ==
    /\ [](since_off >= ReleaseBound(env) => ~EnvIsActive(env))
    /\ [][(since_off >= 0 /\ ~EnvIsActive(env) /\ op' \notin {"note_on", "note_off"})
            => ~EnvIsActive(env')]_vars

\* a released envelope at the bound, after a note whose sustain was reached
EnvIdleAfterReleaseWitness ==
    /\ since_off = ReleaseBound(env)
    /\ env.state = "Idle"
    /\ op = "next_sample"

\* ------------------------------------------------------------------ C9
\* the level n samples after note_on, with the parameters of e
RampLevel(e, n) ==
    LET A == StageSamples(e.attack)
        D == StageSamples(e.decay)
    IN  IF n < A THEN (n * One) \div A
        ELSE IF n < A + D THEN One - ((n - A) * (One - e.sustain)) \div D
        ELSE e.sustain

\* the stage n samples after note_on
RampStage(e, n) ==
    LET A == StageSamples(e.attack)
        D == StageSamples(e.decay)
    IN  IF n < A THEN "Attack" ELSE IF n < A + D THEN "Decay" ELSE "Sustain"

\* C9: after note_on and with no note_off (parameters unchanged), the k-th
\* sample is on the linear ramp 0 -> 1 over attack*sample_rate samples, then on
\* the linear ramp 1 -> sustain over decay*sample_rate samples, then at the
\* sustain level; next_sample moves the stage only forward (Attack, Decay,
\* Sustain; Release to Idle) and set_adsr does not move it.
EnvStagesInOrder ==
    /\ [](since_on >= 1 =>
            /\ env.current_level = RampLevel(env, since_on - 1)
            /\ env.state = RampStage(env, since_on - 1))
    /\ [][/\ op' = "next_sample" =>
                CASE env.state = "Attack" -> env'.state \in {"Attack", "Decay"}
                  [] env.state = "Decay" -> env'.state \in {"Decay", "Sustain"}
                  [] env.state = "Sustain" -> env'.state = "Sustain"
                  [] env.state = "Release" -> env'.state \in {"Release", "Idle"}
                  [] env.state = "Idle" -> env'.state = "Idle"
           /\ op' = "set_adsr" => env'.state = env.state]_vars

\* a note that went through Attack and Decay and sits in Sustain below 1
EnvStagesInOrderWitness ==
    /\ since_on > StageSamples(env.attack + env.decay) + 1
    /\ env.state = "Sustain"
    /\ env.current_level = env.sustain
    /\ env.sustain > 0
    /\ env.sustain < One

\* ------------------------------------------------------------------ C1
\* the slot the allocation rule names: the lowest Idle slot; with no Idle slot
\* the lowest Active slot whose envelope is idle; with neither, the Active
\* slot of smallest age
RuleSlot(p) ==
    LET slots == DOMAIN p.voices
        idle == {i \in slots : p.voices[i].state = "Idle"}
        quiet == {i \in slots : p.voices[i].state = "Active"
                                /\ p.voices[i].voice.envelope.state = "Idle"}
    IN  IF idle # {} THEN CHOOSE i \in idle : \A j \in idle : i <= j
        ELSE IF quiet # {} THEN CHOOSE i \in quiet : \A j \in quiet : i <= j
        ELSE CHOOSE i \in slots : \A j \in slots \ {i} : p.voices[i].age < p.voices[j].age

ActiveCount(p) == Cardinality({i \in DOMAIN p.voices : p.voices[i].state = "Active"})

NoteOffReleasesThenIdle ==
    [][/\ pool_op'.name = "note_off" =>
            \A i \in DOMAIN pool.voices :
                IF pool.voices[i].state = "Active" /\ pool.voices[i].note = pool_op'.note
                THEN /\ pool'.voices[i].voice.envelope.state = "Release"
                     /\ pool'.voices[i].state = "Active"
                     /\ pool'.voices[i].note = pool.voices[i].note
                ELSE pool'.voices[i] = pool.voices[i]
       /\ pool_op'.name # "note_on" =>
            \A i \in DOMAIN pool.voices :
                (pool.voices[i].state = "Active" /\ pool.voices[i].voice.envelope.state # "Idle")
                    => (pool'.voices[i].state = "Active"
                        /\ pool'.voices[i].note = pool.voices[i].note)
       /\ pool_op'.name = "process" =>
            \A i \in DOMAIN pool.voices :
                went_idle[i] => pool'.voices[i].state = "Idle"]_vars

\* the first two parts of C3 alone
NoteOffReleasesAndKeeps ==
    [][/\ pool_op'.name = "note_off" =>
            \A i \in DOMAIN pool.voices :
                IF pool.voices[i].state = "Active" /\ pool.voices[i].note = pool_op'.note
                THEN /\ pool'.voices[i].voice.envelope.state = "Release"
                     /\ pool'.voices[i].state = "Active"
                     /\ pool'.voices[i].note = pool.voices[i].note
                ELSE pool'.voices[i] = pool.voices[i]
       /\ pool_op'.name # "note_on" =>
            \A i \in DOMAIN pool.voices :
                (pool.voices[i].state = "Active" /\ pool.voices[i].voice.envelope.state # "Idle")
                    => (pool'.voices[i].state = "Active"
                        /\ pool'.voices[i].note = pool.voices[i].note)]_vars

\* ------------------------------------------------------------------ C4
\* the filter as stated: omni, or the event's channel, or AllNotesOff for all
Accepts(c, event) ==
    \/ c = Omni
    \/ EventChannel(event) = c
    \/ (event.type = "AllNotesOff" /\ EventChannel(event) = NoChannel)

\* C4: when an engine with channel filter c processes its queue, the events
\* that reach its match are exactly the queued events with c = 255, or of
\* channel c, or AllNotesOff with channel None, in queue order; the queue is
\* empty afterwards; and the engine ends in the state it would have reached
\* had the other events never been queued.
FilterAppliesExactly ==
    [][(pc.at = "recv" /\ pc'.at = "idle") =>
        \A i \in DOMAIN instances :
            LET e == instances[i].engine
                accepted == SelectSeq(inst_q[i],
                                LAMBDA event : Accepts(e.midi_channel_filter, event))
            IN  /\ applied'[i] = applied[i] \o accepted
                /\ inst_q'[i] = <<>>
                /\ instances'[i].engine = EngineProcess(e, accepted, pc.frames).engine]_vars

\* an engine with a channel filter has received an event it refused and an
\* AllNotesOff for all channels, which it applied
FilterAppliesExactlyWitness ==
    /\ pc.at = "idle"
    /\ \E i \in DOMAIN instances :
          /\ instances[i].engine.midi_channel_filter # Omni
          /\ Len(applied[i]) < Len(delivered[i])
          /\ \E k \in DOMAIN applied[i] :
                applied[i][k].type = "AllNotesOff" /\ applied[i][k].channel = NoChannel

\* ------------------------------------------------------------------ C5
\* the instances whose pitch (or only) buffer is routed to channel k, and the
\* CV instances whose gate buffer is
PitchRoutedTo(k) == {i \in DOMAIN instances : instances[i].audio_channel = k}
GateRoutedTo(k) ==
    {i \in DOMAIN instances :
        instances[i].uses_dual_channel /\ instances[i].audio_channel + 1 = k}

\* C5: after MultiEngineSynth::process every sample of output channel k is the
\* sum of the buffers rendered in this callback by the instances routed to k:
\* pitch (or audio) of those with audio_channel = k, gate of the CV instances
\* with audio_channel + 1 = k; so a channel without instance is 0 and an
\* instance whose channel is >= num_channels is in no sum.
MixerRoutesByChannel ==
    pc.at = "idle" =>
        \A f \in DOMAIN output :
            /\ DOMAIN output[f] = 0..(NumChannels - 1)
            /\ \A k \in 0..(NumChannels - 1) :
                  output[f][k] =
                      SumOver([i \in PitchRoutedTo(k) |-> rendered[i].pitch[f]],
                              PitchRoutedTo(k))
                      + SumOver([i \in GateRoutedTo(k) |-> rendered[i].gate[f]],
                                GateRoutedTo(k))

\* a callback in which the synth and the kick of channel 0, the CV instance
\* and the kick past the last channel all rendered a non-zero sample in the
\* same frame
MixerRoutesByChannelWitness ==
    /\ pc.at = "idle"
    /\ \E f \in DOMAIN output :
          /\ rendered[1].pitch[f] # 0
          /\ rendered[2].pitch[f] # 0
          /\ rendered[1].pitch[f] + rendered[2].pitch[f] # 0
          /\ rendered[3].pitch[f] # 0
          /\ rendered[3].gate[f] # 0
          /\ rendered[4].pitch[f] # 0
          /\ output[f][1] = 0

\* ------------------------------------------------------------------ C6
\* the copy of the event being broadcast that instance i has yet to get
Pending(i) == IF pc.at = "send" /\ i >= pc.next THEN <<pc.event>> ELSE <<>>

\* C6: in every state of every interleaving, for every instance the events
\* the MIDI thread has sent are, in order, those the instance has received,
\* those in its queue, the event being broadcast if its copy is still to come
\* (copies go out in instance order), and those in the main queue: nothing is
\* lost, duplicated or reordered; and what the instance applied is what it
\* received, in that order, without the events its filter refuses.
BroadcastKeepsOrder ==
    \A i \in DOMAIN instances :
        /\ sent = delivered[i] \o inst_q[i] \o Pending(i) \o main_q
        /\ applied[i] = SelectSeq(delivered[i],
                            LAMBDA event : ShouldProcessEvent(instances[i].engine, event))

\* the MIDI thread sent an event while the audio thread was in the middle of
\* a broadcast: some instances have their copy of the first event, some not,
\* and the second event waits in the main queue
BroadcastKeepsOrderWitness ==
    /\ pc.at = "send"
    /\ pc.next > 1
    /\ pc.next <= Len(instances)
    /\ main_q # <<>>
    /\ main_q[1] # pc.event

\* ----------------------------------------------------------------- C10
\* C10: an envelope that is Idle stays Idle (inactive, level 0) under every
\* call but note_on; in particular note_off starts no Release from Idle.
IdleLeftOnlyByNoteOn ==
    [][pool_op'.name # "note_on" =>
        \A i \in DOMAIN pool.voices :
            pool.voices[i].voice.envelope.state = "Idle"
                => /\ pool'.voices[i].voice.envelope.state = "Idle"
                   /\ pool'.voices[i].voice.envelope.current_level = 0]_vars


IdleSlotIsQuiet ==
    \A i \in DOMAIN pool.voices :
        /\ pool.voices[i].state = "Idle" => ~EnvIsActive(pool.voices[i].voice.envelope)
        /\ LET updated == UpdateVoiceStates(pool).voices[i]
           IN  updated.state = "Active" <=> EnvIsActive(updated.voice.envelope)

\* a slot that sounded and was flipped back to Idle, next to an Active slot
\* whose envelope has completed and which the next update will flip
IdleSlotIsQuietWitness ==
    \E i, j \in DOMAIN pool.voices :
        /\ pool.voices[i].state = "Idle"
        /\ pool.voices[i].voice.envelope.sample_count > 0
        /\ pool.voices[j].state = "Active"
        /\ ~EnvIsActive(pool.voices[j].voice.envelope)


\* ----------------------------------------------------------------- C13
\* every slot of every synth instance is Idle
AllSlotsIdle ==
    \A i \in DOMAIN instances :
        \A s \in DOMAIN instances[i].engine.voice_pool.voices :
            instances[i].engine.voice_pool.voices[s].state = "Idle"

\* instance i has received a NoteOn that its filter accepts
HeardNoteOn(i) ==
    \E k \in DOMAIN delivered[i] :
        /\ delivered[i][k].type = "NoteOn"
        /\ Accepts(instances[i].engine.midi_channel_filter, delivered[i][k])

\* C13: once an instance has received the AllNotesOff for all channels (no
\* NoteOn follows it), every slot of it is in release or done, whatever its
\* filter; as callbacks continue all slots of all instances become and stay
\* Idle; and before that an instance that has received no NoteOn its filter
\* accepts (NoteOn on channel 0 at the instance of channel 1) has no Active
\* slot and renders exactly zero, while a NoteOn it accepts activates a voice.
PanicSilencesAll ==
    /\ [](\A i \in DOMAIN instances :
            /\ (\E k \in DOMAIN delivered[i] : delivered[i][k] = AllNotesOffEvent(NoChannel))
                  => \A s \in DOMAIN instances[i].engine.voice_pool.voices :
                        instances[i].engine.voice_pool.voices[s].voice.envelope.state
                            \in {"Release", "Idle"}
            /\ ~HeardNoteOn(i)
                  => /\ \A s \in DOMAIN instances[i].engine.voice_pool.voices :
                            instances[i].engine.voice_pool.voices[s].state = "Idle"
                     /\ \A f \in DOMAIN rendered[i].pitch : rendered[i].pitch[f] = 0
                     /\ pc.at = "idle" =>
                            \A f \in DOMAIN output : output[f][instances[i].audio_channel] = 0)
    /\ [][(pc.at = "recv" /\ pc'.at = "idle") =>
            \A i \in DOMAIN instances :
                (/\ inst_q[i] # <<>>
                 /\ inst_q[i][Len(inst_q[i])].type = "NoteOn"
                 /\ Accepts(instances[i].engine.midi_channel_filter, inst_q[i][Len(inst_q[i])]))
                    => \E s \in DOMAIN instances[i].engine.voice_pool.voices :
                          /\ instances'[i].engine.voice_pool.voices[s].state = "Active"
                          /\ instances'[i].engine.voice_pool.voices[s].note
                                = inst_q[i][Len(inst_q[i])].note]_vars
    /\ (Panicked ~> []AllSlotsIdle)

\* after the panic everything is Idle; the instance of channel 0 and the omni
\* instance had sounded, the instance of channel 1 had received the NoteOn of
\* channel 0 and never sounded
PanicSilencesAllWitness ==
    /\ Panicked
    /\ AllSlotsIdle
    /\ delivered[2] # <<>>
    /\ delivered[2][1].type = "NoteOn"
    /\ instances[1].engine.voice_pool.voices[0].voice.envelope.sample_count > 0
    /\ instances[3].engine.voice_pool.voices[0].voice.envelope.sample_count > 0
    /\ instances[2].engine.voice_pool.voices[0].voice.envelope.sample_count = 0


\* ----------------------------------------------------------------- C14
\* C14: in every state of the CV voice, whatever calls led to it, the gate is
\* high exactly when the note stack holds a note, and the gate sample is 0.8
\* (GateTenths tenths) while it is high and 0 while it is low.
GateFollowsStack ==
    /\ cv.gate_high <=> cv.note_stack # <<>>
    /\ CVNextGateSample(cv) = IF cv.note_stack # <<>> THEN GateTenths ELSE 0

\* a note was released while another is held, under a transpose and a glide
\* time that were set: the gate is still high
GateFollowsStackWitness ==
    /\ cv_op.name = "note_off"
    /\ cv.gate_high
    /\ cv.transpose # 0
    /\ cv.glide_samples_left > 0
    /\ CVNextGateSample(cv) = GateTenths


\* ----------------------------------------------------------------- C15
\* C15: at every moment current_note() is the most recently pressed note that
\* is still held: the note of the last NoteOn, after a NoteOff the most recent
\* press among the notes that remain, with the gate high while a note is
\* held, and None with the gate low once no note is held.
CurrentNoteIsLastPressed ==
    /\ CVCurrentNote(cv) = IF held = <<>> THEN NoNote ELSE held[Len(held)]
    /\ cv.gate_high <=> held # <<>>


\* ----------------------------------------------------------------- C16
\* C16: the note stack of the CV voice never holds a note twice and never
\* holds more than MAX_NOTES (16) notes, also when more than 16 different keys
\* are pressed and none is released.
StackBounded ==
    /\ Len(cv.note_stack) <= MAX_NOTES
    /\ \A i, j \in DOMAIN cv.note_stack : cv.note_stack[i] = cv.note_stack[j] => i = j

\* the eighteenth key has been pressed with none released
StackBoundedWitness ==
    /\ Len(held) = MAX_NOTES + 2
    /\ cv_op.name = "note_on"
    /\ cv_op.note = FirstNote + MAX_NOTES + 1
    /\ Len(cv.note_stack) = MAX_NOTES


\* ----------------------------------------------------------------- C17
\* C17: a note_on that finds the gate low puts current_pitch on the pitch of
\* the new note at once, whatever the glide time, so that the next pitch
\* sample is that pitch; a note_on leaves a glide running only if it found
\* the gate high.
FirstNoteSnaps ==
    [][cv_op'.name = "note_on" =>
        /\ ~cv.gate_high =>
              /\ cv'.target_pitch = NoteToVoltage(cv_op'.note, cv.transpose)
              /\ cv'.current_pitch = cv'.target_pitch
              /\ CVNextPitchSample(cv').current_pitch = cv'.target_pitch
        /\ cv'.glide_samples_left > 0 => cv.gate_high]_vars

\* a note_on found the gate low with a glide time set and the pitch elsewhere
\* (the stale step of an earlier glide is still stored): the pitch is on the
\* new note
FirstNoteSnapsWitness ==
    /\ cv_op.name = "note_on"
    /\ ~cv_op.was_high
    /\ cv.glide_time > 0
    /\ cv.glide_step # 0
    /\ cv.current_pitch = NoteToVoltage(cv_op.note, cv.transpose)
    /\ cv.current_pitch # 0


\* ----------------------------------------------------------------- C18
\* C18: with a glide time g > 0 and the gate high, after a note_on to another
\* pitch and no other note or parameter call, every next_pitch_sample moves
\* current_pitch by the same step, towards the target and never past it;
\* once g * sample_rate calls have been made current_pitch is the target, and
\* it stays there.
GlideIsLinear ==
    [][(cv_op'.name = "sample" /\ glide_calls >= 0) =>
        LET total == cv.glide_time * SampleRateHz
            low == Min(glide_from, cv.target_pitch)
            high == Max(glide_from, cv.target_pitch)
        IN  /\ cv'.glide_step = cv.glide_step
            /\ cv'.target_pitch = cv.target_pitch
            /\ low <= cv'.current_pitch /\ cv'.current_pitch <= high
            /\ glide_calls' * 1000 < total =>
                  /\ cv'.current_pitch - cv.current_pitch = cv.glide_step
                  /\ cv'.current_pitch = glide_from + glide_calls' * cv.glide_step
            /\ glide_calls' * 1000 >= total => cv'.current_pitch = cv.target_pitch]_vars

\* one sample into a glide that a legato note_on started: the pitch has left
\* where it was and is not yet on the target
GlideIsLinearWitness ==
    /\ cv_op.name = "sample"
    /\ glide_calls = 1
    /\ glide_calls * 1000 < cv.glide_time * SampleRateHz
    /\ cv.current_pitch # glide_from
    /\ cv.current_pitch # cv.target_pitch


\* ----------------------------------------------------------------- C19
\* C19: through CVEngine::process_dual_channel, with transpose and glide time
\* unchanged, once glide_time * sample_rate samples have been rendered after
\* a legato NoteOn the pitch is on the target of that note, however the
\* samples were divided into callbacks.
GlideSurvivesCallbacks ==
    (glide_calls >= 0 /\ glide_calls * 1000 >= CVParams.glide * SampleRateHz)
        => cv.current_pitch = cv.target_pitch


\* ----------------------------------------------------------------- C20
\* the events of q that trigger the drum engine e
Triggers(e, q) ==
    SelectSeq(q, LAMBDA event : /\ event.type = "NoteOn"
                                /\ event.note = e.trigger_note
                                /\ Accepts(e.midi_channel_filter, event))

\* C20: a callback of a drum engine whose events hold no NoteOn of its
\* trigger note on a channel its filter accepts (other NoteOn, NoteOff,
\* AllNotesOff) leaves the engine and its output exactly as a callback with
\* no event does: the voice is not changed by them and a sounding drum keeps
\* sounding; a callback with such a NoteOn leaves the drum sounding.
DrumOnlyTriggers ==
    [][(pc.at = "recv" /\ pc'.at = "idle") =>
        \A i \in DOMAIN instances :
            instances[i].engine.type = "Drum" =>
                LET e == instances[i].engine
                    quiet == EngineProcess(e, <<>>, pc.frames)
                IN  /\ Triggers(e, inst_q[i]) = <<>> =>
                          /\ instances'[i].engine = quiet.engine
                          /\ rendered'[i].pitch = quiet.pitch
                          /\ KickIsActive(e.voice) => KickIsActive(instances'[i].engine.voice)
                    /\ Triggers(e, inst_q[i]) # <<>> =>
                          KickIsActive(instances'[i].engine.voice)]_vars

\* the kick of note 60 was triggered and, sounding, received a NoteOff or an
\* AllNotesOff in a later callback: it still sounds
DrumOnlyTriggersWitness ==
    /\ pc.at = "idle"
    /\ callbacks = 2
    /\ Len(delivered[2]) = 2
    /\ Triggers(instances[2].engine, <<delivered[2][1]>>) # <<>>
    /\ delivered[2][2].type \in {"NoteOff", "AllNotesOff"}
    /\ instances[2].engine.voice.amp_envelope.sample_count > pc.frames
    /\ KickIsActive(instances[2].engine.voice)
    /\ \E f \in DOMAIN rendered[2].pitch : rendered[2].pitch[f] # 0


\* ----------------------------------------------------------------- C21
\* the calls after which a triggered drum is asked whether it still sounds:
\* past the attack and the decay of every envelope of the three drums
DrumStopSamples == MaxDrumSamples - 1

\* C21: a drum voice that was triggered and not triggered again is inactive
\* once its attack and decay have been rendered, without any NoteOff
DrumFallsSilent ==
    drum_calls >= DrumStopSamples => ~DrumVoiceIsActive(drum)


StatusNibble == IF midi_in = <<>> THEN 0 ELSE midi_in[1] \div 16

\* the low nibble of the first byte
StatusChannel == IF midi_in = <<>> THEN 0 ELSE midi_in[1] % 16

\* the handler's filter lets the slice's channel pass
FilterPasses == midi_channel = Omni \/ midi_channel = StatusChannel

EventCarriesChannel ==
    midi_event # NoSynthEvent =>
        /\ "channel" \in DOMAIN midi_event
        /\ midi_event.channel = midi_message.channel
        /\ midi_event.type \in {"NoteOn", "NoteOff"} =>
                "note" \in DOMAIN midi_event /\ midi_event.note = midi_message.note

\* ----------------------------------------------------------------- C25
\* C25: whatever the slice, a NoteOn message has channel 0..15, note 0..127
\* and velocity 1..127, a NoteOff message has channel 0..15 and note 0..127,
\* and no event sent on carries a note above 127 or an amplitude above 1
DataBytesInRange ==
    /\ midi_message.kind = "NoteOn" =>
            /\ midi_message.channel \in 0..15
            /\ midi_message.note \in 0..127
            /\ midi_message.velocity \in 1..127
    /\ midi_message.kind = "NoteOff" =>
            /\ midi_message.channel \in 0..15
            /\ midi_message.note \in 0..127
    /\ midi_event.type = "NoteOff" => midi_event.note \in 0..127
    /\ midi_event.type = "NoteOn" => midi_event.velocity \in 0..127


\* ----------------------------------------------------------------- C26
\* C26: no audio callback panics, whatever the events, the instance list
\* (audio channels at or past the channel count included) and the length of
\* the device buffer
CallbackNeverPanics == ~panicked

\* a callback has returned whose device buffer was not a whole number of
\* frames, with an instance routed past the last channel and a CV instance
\* whose gate channel is usize::MAX
CallbackNeverPanicsWitness ==
    /\ pc.at = "idle"
    /\ callbacks >= 1
    /\ data_len = NumChannels + 1
    /\ \E i \in DOMAIN instances :
           ~instances[i].uses_dual_channel /\ instances[i].audio_channel >= NumChannels
    /\ \E i \in DOMAIN instances :
           instances[i].uses_dual_channel /\ GateChannel(instances[i]) = UsizeMax

\* ----------------------------------------------------------------- C27
\* C27: a callback whose block is no larger than one an earlier callback was
\* given makes no heap allocation
SteadyStateAllocFree ==
    (pc.at = "idle" /\ callbacks >= 2 /\ pc.frames <= seen) => allocs = 0

ParamsInRange ==
    \A kind \in InstanceKinds : \A field \in FieldsOf(kind) :
        /\ ui_params[kind][field] >= ValidRange(field).min
        /\ ui_params[kind][field] <= ValidRange(field).max

\* an increase was made on a field that already stood at the top of its
\* range, and a decrease on one at the bottom
ParamsInRangeWitness ==
    /\ ui_op = [name |-> "increase", kind |-> "Kick", field |-> "kick_pitch_start"]
    /\ ui_params["Kick"]["kick_pitch_start"] = ValidRange("kick_pitch_start").max
    /\ ui_params["CV"]["transpose"] = ValidRange("transpose").max
    /\ ui_params["Synth"]["attack"] = EditorMax("attack")
    /\ edits >= 2


\* ----------------------------------------------------------------- C30
\* C30: after any sequence of set_frequency (any frequency f >= 0),
\* set_waveform, reset and next_sample calls the oscillator phase is in
\* [0, 1), here in units of 1/SampleRateHz
PhaseInUnit == osc.phase >= 0 /\ osc.phase < SampleRateHz


\* ----------------------------------------------------------------- C31
\* a sample whole / 2^15 + frac / 2^31 lies in [-1, 1]
SampleInRange(s) ==
    /\ s.whole >= 0 - (Limb \div 2)
    /\ s.whole < (Limb \div 2) \/ (s.whole = Limb \div 2 /\ s.frac = 0)

\* the greatest state whose successor s * 1664525 + 1013904223 is below 2^31
\* and can be computed without limbs
MaxDirect == 600

\* C31: the state stays a 32-bit number and, where the successor can be
\* computed directly, is state * 1664525 + 1013904223; two generators made with the same
\* seed have returned the same samples call for call, and after the same
\* number of calls hold the same state; every sample is in [-1, 1]
NoiseDeterministicInRange ==
    /\ \A n \in {noise1, noise2} : n.state.hi \in 0..(Limb - 1) /\ n.state.lo \in 0..(Limb - 1)
    /\ \A s \in 0..MaxDirect :
           LET next == s * (LcgMulHi * Limb + LcgMulLo) + (LcgAddHi * Limb + LcgAddLo)
           IN  LcgNext([hi |-> 0, lo |-> s]) = [hi |-> next \div Limb, lo |-> next % Limb]
    /\ \A i \in 1..Min(Len(samples1), Len(samples2)) : samples1[i] = samples2[i]
    /\ Len(samples1) = Len(samples2) => noise1 = noise2
    /\ \A i \in 1..Len(samples1) : SampleInRange(samples1[i])
    /\ \A i \in 1..Len(samples2) : SampleInRange(samples2[i])

\* both generators were called, one more often than the other, and the first
\* sample is exactly 1: the state 0xFFFFFFFF, which the f32 conversion
\* rounds up to 2^32
NoiseDeterministicInRangeWitness ==
    /\ Len(samples1) = MaxNoiseCalls
    /\ Len(samples2) >= 2 /\ Len(samples2) < Len(samples1)
    /\ samples1[1] = [whole |-> Limb \div 2, frac |-> 0]
    /\ samples2[2] # samples2[1]


\* ----------------------------------------------------------------- C32
\* the notes of the files that name a MIDI note in 0..127
ParseableNotes == {<<"c", "1">>, <<"g", "b", "1">>}

\* the file cannot be read or parsed, or an instance has an ADSR value out
\* of range, a MIDI channel outside 1..16, an audio channel below 1, a note
\* that cannot be parsed or a field of its drum type out of range, or there
\* is no instance
FileIsBad ==
    \/ ~run_file.readable
    \/ ~run_file.well_formed
    \/ run_file.config.poly16s = <<>> /\ run_file.config.drums = <<>>
    \/ \E i \in 1..Len(run_file.config.poly16s) :
           LET c == run_file.config.poly16s[i]
           IN  \/ c.attack < 0 \/ c.attack > 10000 \/ c.decay < 0 \/ c.decay > 10000
               \/ c.release < 0 \/ c.release > 10000 \/ c.sustain < 0 \/ c.sustain > 100
               \/ (c.midich >= 0 /\ c.midich \notin 1..16)
               \/ c.audioch < 1
    \/ \E i \in 1..Len(run_file.config.drums) :
           LET c == run_file.config.drums[i]
           IN  \/ c.midich >= 0 /\ c.midich \notin 1..16
               \/ c.audioch < 1
               \/ c.note \notin ParseableNotes
               \/ c.drum_type = "Kick" /\ c.kick_pitch_start < 100

\* C32: with a file that fails to load or to validate, run_config_mode
\* returns the error with the MIDI port never connected and the audio stream
\* never started; the port is connected and the stream started only with a
\* file that loaded and validated
ErrorBeforeAudio ==
    /\ FileIsBad /\ run_pc # "start" =>
           run_pc = "returned" /\ run_result \in {"read", "parse", "validate"}
    /\ midi_connected \/ stream_started \/ run_pc \in {"loaded", "found", "midi", "running"} =>
           ~FileIsBad

\* a file with a valid synth and a drum whose note cannot be parsed was
\* refused by validate
ErrorBeforeAudioWitness ==
    /\ run_pc = "returned" /\ run_result = "validate"
    /\ Len(run_file.config.poly16s) = 2
    /\ \A i \in 1..2 : SynthInstanceValidate(run_file.config.poly16s[i])
    /\ Len(run_file.config.drums) = 1
    /\ run_file.config.drums[1].note = <<"c", "1", "0">>


\* ----------------------------------------------------------------- C33
\* the values an engine of the kind renders with when it has loaded the block
BlockInEffect(kind) ==
    CASE kind = "Synth" ->
            [attack |-> Max(ui_params[kind].attack, MinTimeMs),
             decay |-> Max(ui_params[kind].decay, MinTimeMs),
             sustain |-> Clamp(ui_params[kind].sustain \div One, 0, One),
             release |-> Max(ui_params[kind].release, MinTimeMs),
             waveform |-> WaveformFromU8(ui_params[kind].wave)]
      [] kind = "Kick" ->
            [pitch_start |-> ui_params[kind].kick_pitch_start,
             pitch_end |-> ui_params[kind].kick_pitch_end,
             pitch_decay |-> Max(ui_params[kind].kick_pitch_decay, MinTimeMs),
             decay |-> Max(ui_params[kind].kick_decay, MinTimeMs),
             click |-> ui_params[kind].kick_click]
      [] kind = "CV" ->
            [glide |-> ui_params[kind].glide, transpose |-> ui_params[kind].transpose]

\* C33: while an engine renders in a callback that began after the last
\* write to its parameter block, the values it renders with are the values
\* of the block
ParamsLatchedPerCallback ==
    lat_pc.at = "render" /\ lat_pc.kind \notin lat_dirty =>
        InEffect(lat_pc.kind, lat_engines[lat_pc.kind]) = BlockInEffect(lat_pc.kind)


\* ----------------------------------------------------------------- C34
\* the slots of least age among the Active slots
OldestActive(p) ==
    {i \in DOMAIN p.voices :
        /\ IsActive(p.voices[i])
        /\ \A j \in DOMAIN p.voices :
               IsActive(p.voices[j]) => p.voices[i].age <= p.voices[j].age}

RoundedSize(base, sample_rate) == (2 * base * sample_rate + TunedRate) \div (2 * TunedRate)

\* C35: every comb and all-pass delay line has round(base * sr / 44100)
\* samples, at least one, and processing a sample never indexes an empty
\* delay line
DelayLinesRoundedNonEmpty ==
    /\ \A i \in DOMAIN CombBases :
           /\ reverb.comb_filters[i].len = RoundedSize(CombBases[i], reverb.sample_rate)
           /\ reverb.comb_filters[i].len >= 1
    /\ \A i \in DOMAIN AllPassBases :
           /\ reverb.allpass_filters[i].len = RoundedSize(AllPassBases[i], reverb.sample_rate)
           /\ reverb.allpass_filters[i].len >= 1
    /\ ~rv_panicked


\* ----------------------------------------------------------------- C36
\* the slot was taken from a note other than the one it plays now, and its
\* voice has not been released
StolenAndHeld(i) ==
    /\ IsActive(pool.voices[i])
    /\ displaced[i] # NoNoteHeld
    /\ displaced[i] # pool.voices[i].note
    /\ pool.voices[i].voice.envelope.state \notin {"Release", "Idle"}

\* C36: a NoteOff of the note a slot was stolen from leaves the voice now
\* playing in that slot as it is; the voice goes into release only by a
\* NoteOff of the note it plays or by AllNotesOff
StaleNoteOffIgnored ==
    [][\A i \in DOMAIN pool.voices :
          StolenAndHeld(i) =>
              /\ (pool_op'.name = "note_off" /\ pool_op'.note = displaced[i]) =>
                     pool'.voices[i] = pool.voices[i]
              /\ pool'.voices[i].voice.envelope.state = "Release" =>
                     \/ pool_op'.name = "note_off" /\ pool_op'.note = pool.voices[i].note
                     \/ pool_op'.name = "all_notes_off"]_vars

\* the NoteOff of the displaced note has just been handled and the voice
\* that took the slot is still held
StaleNoteOffIgnoredWitness ==
    /\ pool_op.name = "note_off"
    /\ \E i \in DOMAIN pool.voices :
          /\ StolenAndHeld(i)
          /\ pool_op.note = displaced[i]


\* ----------------------------------------------------------------- C37
\* the events the mixer has taken from the main channel
TakenFromMain == Len(sent) - Len(main_q)

\* C37: when MultiEngineSynth::process has returned, the channel of every
\* instance is empty and every instance has received every event the mixer
\* took from the main channel, the instance whose audio channel is out of
\* range included
InstanceQueuesDrained ==
    pc.at = "idle" =>
        \A i \in DOMAIN instances :
            /\ inst_q[i] = <<>>
            /\ Len(delivered[i]) = TakenFromMain

\* a callback has returned after the instance on the out-of-range channel
\* received an event
InstanceQueuesDrainedWitness ==
    /\ pc.at = "idle"
    /\ callbacks > 0
    /\ \E i \in DOMAIN instances :
          /\ instances[i].audio_channel >= NumChannels
          /\ delivered[i] # <<>>
          /\ inst_q[i] = <<>>


\* ----------------------------------------------------------------- C38
\* C38: after note_on, note_off or set_transpose, with a note on the stack,
\* target_pitch is the voltage of the top-of-stack note under the current
\* transpose: the pitch approached is that of the note current_note() reports
TargetIsTopOfStack ==
    (cv_op.name \in {"note_on", "note_off", "set_transpose"} /\ cv.note_stack # <<>>) =>
        cv.target_pitch = NoteToVoltage(cv.note_stack[Len(cv.note_stack)], cv.transpose)


\* ----------------------------------------------------------------- C39
\* C39: the voice of every NoteOn has had an envelope level above 0 when it
\* goes idle, also when its NoteOff was handled before any sample was rendered
NoteHeardBeforeIdle ==
    \A i \in DOMAIN note_life : went_idle[i] => note_life[i].heard

\* C39, as the code has it: the voice of a NoteOn has had an envelope level
\* above 0 when it goes idle exactly if two or more samples were rendered
\* before its release, or none was and the slot's envelope was above 0 when
\* the NoteOn took it; a NoteOff handled in the callback of its NoteOn on a
\* silent slot gives a voice that is never heard
NoteHeardIffRendered ==
    \A i \in DOMAIN note_life :
        went_idle[i] =>
            (note_life[i].heard <=>
                \/ note_life[i].rendered >= 2
                \/ note_life[i].rendered = 0 /\ note_life[i].from_level > 0)

\* a voice released in the callback of its NoteOn on a silent slot has gone
\* idle unheard
NoteHeardIffRenderedWitness ==
    \E i \in DOMAIN note_life :
        /\ went_idle[i]
        /\ note_life[i].rendered = 0
        /\ note_life[i].from_level = 0
        /\ ~note_life[i].heard

====
